---- MODULE Spec2Model ----
(***************************************************************************)
(* The entity knowledge graph of twin-mind: the Python extractor, the      *)
(* SQLite store (entities, relations), the relation Resolver, the derived  *)
(* relation Deriver, the full rebuild and the incremental update           *)
(* (scripts/twin_mind/entity_graph.py), and the sidecar FileLock           *)
(* (scripts/twin_mind/fs.py).                                              *)
(*                                                                         *)
(* Dotted names (qualnames, raw targets) are sequences of segments, the    *)
(* pieces between the dots; a segment is a string.  A file path is a       *)
(* record of its directory/stem parts and its extension.                   *)
(***************************************************************************)
EXTENDS Integers, Sequences, FiniteSets, TLC

\* Bound of the model: an operation starts only while the entities table's
\* AUTOINCREMENT counter is at most MaxSeq.
MaxSeq == 5

\* SQL NULL in the nullable columns src_entity_id and dst_entity_id (row ids
\* start at 1, so 0 is free).
NULL == 0

(***************************************************************************)
(* Strings.                                                                *)
(***************************************************************************)
\* The identifiers that occur in the modelled sources.
PlainAtoms ==
    {"m", "c", "pkg", "g", "f", "run", "svc", "main", "service", "api",
     "foo", "bar", "login", "Foo", "Sub", "self", "__init__", "notes", "module",
     "Run", "cls", "this"}

\* str.lower() on one identifier.
lower_plain(a) ==
    CASE a = "Foo" -> "foo"
      [] a = "Sub" -> "sub"
      [] a = "Run" -> "run"
      [] OTHER -> a

\* f"{local_name}={target}": the first segment of an imports_alias target.
alias_atom(al, t) == al \o "=" \o t

AliasPairs == PlainAtoms \X PlainAtoms

\* value.split("=", 1) on a segment that contains "=".
AliasSplit ==
    [a \in {alias_atom(p[1], p[2]) : p \in AliasPairs} |->
        CHOOSE p \in AliasPairs : alias_atom(p[1], p[2]) = a]

\* "=" in value
has_eq(a) == a \in DOMAIN AliasSplit

\* str.lower() on one segment.
lower(a) ==
    IF has_eq(a)
    THEN alias_atom(lower_plain(AliasSplit[a][1]), lower_plain(AliasSplit[a][2]))
    ELSE lower_plain(a)

\* str.lower() on a dotted name.
lower_name(n) == [i \in 1..Len(n) |-> lower(n[i])]

\* name.rsplit(".", 1)[0]
drop_last(n) == SubSeq(n, 1, Len(n) - 1)

\* the dotted suffixes ".".join(parts[idx:]) of a name
suffixes_of(n) == {SubSeq(n, i, Len(n)) : i \in 1..Len(n)}

Max(S) == CHOOSE v \in S : \A w \in S : w <= v

Min(S) == CHOOSE v \in S : \A w \in S : v <= w

(***************************************************************************)
(* Paths.                                                                  *)
(***************************************************************************)
Path(parts, ext) == [parts |-> parts, ext |-> ext]

\* Extensions of the registered extractors that the model covers (the Python
\* extractor).
PythonExtensions == {"py"}

supports_path(fp) == fp.ext \in PythonExtensions

\* a module name that keeps the package-initializer segment
module_name_keeps_init(fp) == IF fp.parts = <<>> THEN <<"module">> ELSE fp.parts

module_name_from_path(fp) ==
    LET parts == IF fp.parts # <<>> /\ fp.parts[Len(fp.parts)] = "__init__"
                 THEN drop_last(fp.parts)
                 ELSE fp.parts
    IN  IF parts = <<>> THEN <<"module">> ELSE parts

\* Path(file_path).stem == "__init__"
is_package_init(fp) == fp.parts # <<>> /\ fp.parts[Len(fp.parts)] = "__init__"

(***************************************************************************)
(* Python sources, as the syntax trees ast.parse gives the visitor.        *)
(***************************************************************************)
NoStmtFields ==
    [name |-> "", line |-> 0, bases |-> <<>>, body |-> <<>>, func |-> <<>>,
     module |-> <<>>, level |-> 0, names |-> <<>>]

\* def name(...): body
Def(name, line, body) ==
    [NoStmtFields EXCEPT !.name = name, !.line = line, !.body = body] @@ [t |-> "def"]

\* class name(bases): body
Class(name, line, bases, body) ==
    [NoStmtFields EXCEPT !.name = name, !.line = line, !.bases = bases, !.body = body]
        @@ [t |-> "class"]

\* an expression statement func(...)
Call(func, line) ==
    [NoStmtFields EXCEPT !.func = func, !.line = line] @@ [t |-> "call"]

\* import a.b [as c], ...
Import(names, line) ==
    [NoStmtFields EXCEPT !.names = names, !.line = line] @@ [t |-> "import"]

\* from module import leaf [as c], ...   (level leading dots)
ImportFrom(module, level, names, line) ==
    [NoStmtFields EXCEPT !.module = module, !.level = level, !.names = names,
                         !.line = line] @@ [t |-> "from"]

\* ast.alias(name, asname)
Alias(name, asname) == [name |-> name, asname |-> asname]

\* A source text: whether ast.parse accepts it, its statements, and whether
\* its size exceeds max_file_size.
Source(parses, body, big) == [parses |-> parses, body |-> body, big |-> big]

(***************************************************************************)
(* _PythonEntityVisitor.                                                   *)
(***************************************************************************)
NoRows == [entities |-> <<>>, relations |-> <<>>]

Rows(es, rs) == [entities |-> es, relations |-> rs]

JoinRows(a, b) ==
    [entities |-> a.entities \o b.entities, relations |-> a.relations \o b.relations]

\* _add_relation: the rows it appends (none when src or dst is empty)
add_relation(fp, src, dst, relation, line) ==
    IF src = <<>> \/ dst = <<>>
    THEN <<>>
    ELSE << [file_path |-> fp, src_qualname |-> src, dst_name |-> dst,
             relation |-> relation, line |-> line] >>

\* _add_entity: the entity and its defines relation
add_entity(fp, parent, name, kind, line) ==
    Rows(<< [file_path |-> fp, name |-> <<name>>, qualname |-> Append(parent, name),
             kind |-> kind, line |-> line] >>,
         add_relation(fp, parent, Append(parent, name), "defines", line))

resolve_import_module(module_name, module, level, package_init) ==
    IF level <= 0
    THEN module
    ELSE LET base_package == IF package_init
                             THEN module_name
                             ELSE IF Len(module_name) > 1 THEN drop_last(module_name)
                                  ELSE <<>>
             climb == IF level - 1 > 0 THEN level - 1 ELSE 0
             parts == IF climb >= Len(base_package)
                      THEN <<>>
                      ELSE SubSeq(base_package, 1, Len(base_package) - climb)
         IN  parts \o module

RECURSIVE import_rows(_, _, _, _)
\* visit_Import: one imports row per alias, and an imports_alias row when a
\* local name stands for the imported path
import_rows(fp, src, names, line) ==
    IF names = <<>>
    THEN <<>>
    ELSE LET a == Head(names)
             imported == a.name
             dotted == Len(imported) > 1
             local_name == IF a.asname # "" THEN a.asname
                           ELSE IF dotted THEN imported[1] ELSE ""
             target == IF a.asname = "" /\ dotted THEN <<imported[1]>> ELSE imported
         IN  (IF imported = <<>>
              THEN <<>>
              ELSE add_relation(fp, src, imported, "imports", line)
                   \o (IF local_name # ""
                       THEN add_relation(fp, src,
                                <<alias_atom(local_name, target[1])>> \o Tail(target),
                                "imports_alias", line)
                       ELSE <<>>))
             \o import_rows(fp, src, Tail(names), line)

RECURSIVE import_from_rows(_, _, _, _, _)
\* visit_ImportFrom, for the module the relative import resolves to
import_from_rows(fp, src, module, names, line) ==
    IF names = <<>>
    THEN <<>>
    ELSE LET a == Head(names)
             leaf == a.name
             imported == module \o leaf
         IN  (IF leaf = <<>> \/ leaf = <<"*">>
              THEN <<>>
              ELSE add_relation(fp, src, imported, "imports", line)
                   \o (IF a.asname # ""
                       THEN add_relation(fp, src,
                                <<alias_atom(a.asname, imported[1])>> \o Tail(imported),
                                "imports_alias", line)
                       ELSE <<>>))
             \o import_from_rows(fp, src, module, Tail(names), line)

RECURSIVE inherits_rows(_, _, _, _)
\* visit_ClassDef: one inherits row per base expression with a name
inherits_rows(fp, qualname, bases, line) ==
    IF bases = <<>>
    THEN <<>>
    ELSE add_relation(fp, qualname, Head(bases), "inherits", line)
         \o inherits_rows(fp, qualname, Tail(bases), line)

RECURSIVE visit(_, _, _, _)
\* generic_visit over a statement list, in the scope on top of the scope stack
visit(fp, stmts, scope, scope_kind) ==
    IF stmts = <<>>
    THEN NoRows
    ELSE LET s == Head(stmts)
             module_name == module_name_from_path(fp)
             first ==
               CASE s.t = "class" ->
                      \* visit_ClassDef
                      JoinRows(
                        JoinRows(add_entity(fp, scope, s.name, "class", s.line),
                                 Rows(<<>>, inherits_rows(fp, Append(scope, s.name),
                                                          s.bases, s.line))),
                        visit(fp, s.body, Append(scope, s.name), "class"))
                 [] s.t = "def" ->
                      \* visit_FunctionDef
                      LET kind == IF scope_kind = "class" THEN "method" ELSE "function"
                      IN  JoinRows(add_entity(fp, scope, s.name, kind, s.line),
                                   visit(fp, s.body, Append(scope, s.name), kind))
                 [] s.t = "call" ->
                      \* visit_Call
                      Rows(<<>>, add_relation(fp, scope, s.func, "calls", s.line))
                 [] s.t = "import" ->
                      Rows(<<>>, import_rows(fp, scope, s.names, s.line))
                 [] s.t = "from" ->
                      Rows(<<>>, import_from_rows(fp, scope,
                                    resolve_import_module(module_name, s.module, s.level,
                                                          is_package_init(fp)),
                                    s.names, s.line))
         IN  JoinRows(first, visit(fp, Tail(stmts), scope, scope_kind))

\* _PythonEntityVisitor.__init__: the module entity
module_entity(fp) ==
    [file_path |-> fp, name |-> module_name_from_path(fp),
     qualname |-> module_name_from_path(fp), kind |-> "module", line |-> 1]

extract_python_entities(fp, src) ==
    IF ~src.parses
    THEN NoRows
    ELSE JoinRows(Rows(<<module_entity(fp)>>, <<>>),
                  visit(fp, src.body, module_name_from_path(fp), "module"))

\* EntityExtractorRegistry.extract_for_path
extract_entities(fp, src) ==
    IF supports_path(fp) THEN extract_python_entities(fp, src) ELSE NoRows

(***************************************************************************)
(* The store: the entities table is a set of rows with their AUTOINCREMENT *)
(* ids, seq is its sqlite_sequence counter, and the relations table is the *)
(* sequence of its rows in rowid order (the relation ids themselves are    *)
(* only used to address a row in UPDATE ... WHERE id = ?).                 *)
(***************************************************************************)
\* the columns of the relations table that every version of the schema has
BaseColumns == {"file_path", "src_qualname", "dst_name", "relation", "line"}

\* the columns that _ensure_schema adds to a table that lacks them
LinkColumns == {"src_entity_id", "dst_entity_id", "resolved", "confidence"}

\* CREATE TABLE IF NOT EXISTS entities / relations, on a file that has neither
EmptyStore ==
    [entities |-> {}, relations |-> <<>>, seq |-> 0,
     columns |-> BaseColumns \cup LinkColumns, exists |-> TRUE]

\* idx_entities_unique
entity_key(e) == <<e.file_path, e.qualname, e.kind>>

\* idx_relations_unique
relation_key(r) == <<r.file_path, r.src_qualname, r.dst_name, r.relation, r.line>>

Range(s) == {s[i] : i \in 1..Len(s)}

\* the columns of a relation row that the resolution pass writes
Unlinked ==
    [src_entity_id |-> NULL, dst_entity_id |-> NULL, resolved |-> 0, confidence |-> 0]

\* whether idx_entities_unique rejects the row
entity_conflict(entities, e) == \E o \in entities : entity_key(o) = entity_key(e)

\* an index that rejects nothing
relation_conflict_never(relations, r) == FALSE

\* whether idx_relations_unique rejects the row
relation_conflict(relations, r) ==
    \E o \in Range(relations) : relation_key(o) = relation_key(r)

RECURSIVE insert_entities(_, _)
\* INSERT OR IGNORE INTO entities, row by row
insert_entities(store, rows) ==
    IF rows = <<>>
    THEN store
    ELSE LET e == Head(rows)
             clash == entity_conflict(store.entities, e)
             next == IF clash
                     THEN store
                     ELSE [store EXCEPT
                             !.entities = @ \cup {e @@ [id |-> store.seq + 1]},
                             !.seq = @ + 1]
         IN  insert_entities(next, Tail(rows))

RECURSIVE insert_relations(_, _)
\* INSERT OR IGNORE INTO relations, row by row; a row that does not name the
\* link columns gets their defaults
insert_relations(store, rows) ==
    IF rows = <<>>
    THEN store
    ELSE LET r == Head(rows)
             clash == relation_conflict(store.relations, r)
             next == IF clash
                     THEN store
                     ELSE [store EXCEPT !.relations = Append(@, r @@ Unlinked)]
         IN  insert_relations(next, Tail(rows))

index_file_content(store, fp, src) ==
    LET rows == extract_entities(fp, src)
    IN  IF rows.entities = <<>> /\ rows.relations = <<>>
        THEN store
        ELSE insert_relations(insert_entities(store, rows.entities), rows.relations)

\* a clear that leaves the entity rows of the file in place
clear_file_graph_relations_only(store, fp) ==
    [store EXCEPT !.relations = SelectSeq(@, LAMBDA r : r.file_path # fp)]

\* _clear_file_graph
clear_file_graph(store, fp) ==
    [store EXCEPT
        !.relations = SelectSeq(@, LAMBDA r : r.file_path # fp),
        !.entities = {e \in @ : e.file_path # fp}]

(***************************************************************************)
(* The Resolver.  A confidence is held in thousandths; a double that lies  *)
(* one unit in the last place below n/100 is held as 10*n - 1.             *)
(***************************************************************************)
ConfDirect == 1000
ConfSelf == 980
ConfClass == 970
ConfModule == 930
ConfModuleSymbol == 880
ConfSuffix == 860
ConfName == 800

\* max(0.84, 0.95 - (0.02 * depth)) in IEEE doubles: 0.95, 0.9299999999999999,
\* 0.9099999999999999, 0.8899999999999999, 0.87, 0.85, 0.84, 0.84, ...
base_confidence(depth) ==
    CASE depth = 0 -> 950
      [] depth = 1 -> 929
      [] depth = 2 -> 909
      [] depth = 3 -> 889
      [] depth = 4 -> 870
      [] depth = 5 -> 850
      [] OTHER -> 840

\* max(0.0, base_confidence - 0.01): 0.94, 0.9199999999999999, ..., 0.83
dotted_confidence(depth) == base_confidence(depth) - 10

\* round(float(confidence), 4)
round4(c) == ((c + 5) \div 10) * 10

\* top_score - second_score >= 0.15 in IEEE doubles: over the scores the
\* steps produce it is the comparison of the decimals, except that
\* 0.95 - 0.8 is 0.1499999999999999.
gap_at_least_015(top, second) ==
    top - second >= 150 /\ ~(top = 950 /\ second = 800)

\* the lower-cased view of the entity rows from which the indices are built
lowered(E) ==
    {[id |-> e.id, file_path |-> e.file_path, kind |-> e.kind, qualname |-> e.qualname,
      ql |-> lower_name(e.qualname), nl |-> lower_name(e.name),
      ml |-> lower_name(module_name_from_path(e.file_path))] : e \in E}

\* dict.get on entity_id_by_qualname: rows are read in rowid order and a later
\* row overwrites an earlier one
\* a dict in which the first row of a qualname stays
entity_id_by_qualname_first(L, q) ==
    LET ids == {e.id : e \in {o \in L : o.ql = q}}
    IN  IF ids = {} THEN NULL ELSE Min(ids)

\* entity_id_by_qualname[qualname_lower] = entity_id, row after row in rowid
\* order: the last row of a qualname stays
entity_id_by_qualname(L, q) ==
    LET ids == {e.id : e \in {o \in L : o.ql = q}}
    IN  IF ids = {} THEN NULL ELSE Max(ids)

entity_id_by_file_qualname(L, fp, q) ==
    LET ids == {e.id : e \in {o \in L : o.file_path = fp /\ o.ql = q}}
    IN  IF ids = {} THEN NULL ELSE Max(ids)

entity_ids_by_name(L, n) == {e.id : e \in {o \in L : o.nl = n}}

entity_ids_by_module_and_name(L, mod, n) ==
    {e.id : e \in {o \in L : o.ml = mod /\ o.nl = n}}

entity_ids_by_class_and_name(L, cq, n) ==
    {e.id : e \in {o \in L : o.kind = "method" /\ Len(o.ql) > 1
                             /\ drop_last(o.ql) = cq /\ o.nl = n}}

entity_ids_by_suffix(L, s) == {e.id : e \in {o \in L : s \in suffixes_of(o.ql)}}

candidate_ids_for_symbol(L, symbol) ==
    IF symbol = <<>>
    THEN {}
    ELSE LET direct == entity_id_by_qualname(L, symbol)
         IN  IF direct # NULL THEN {direct} ELSE entity_ids_by_suffix(L, symbol)

\* a chain that holds the innermost scope only
scope_chain_innermost(src_qualname, module_name) == <<lower_name(src_qualname)>>

scope_chain(src_qualname, module_name) ==
    LET n == Len(src_qualname)
        scopes == [i \in 1..n |-> lower_name(SubSeq(src_qualname, 1, n + 1 - i))]
        module_lower == lower_name(module_name)
    IN  IF module_lower # <<>> /\ module_lower \notin Range(scopes)
        THEN Append(scopes, module_lower)
        ELSE scopes

\* _parse_import_alias: <<alias, target>>, both lower-cased
parse_import_alias(raw) ==
    IF raw = <<>> \/ ~has_eq(raw[1])
    THEN <<"", <<>>>>
    ELSE <<lower_plain(AliasSplit[raw[1]][1]),
           lower_name(<<AliasSplit[raw[1]][2]>> \o Tail(raw))>>

\* an import table built from the import rows already marked resolved
imports_by_scope_resolved(R, scope, key) ==
    {lower_name(r.dst_name) :
        r \in {o \in Range(R) : /\ o.relation = "imports"
                                 /\ o.resolved = 1
                                 /\ lower_name(o.src_qualname) = scope
                                 /\ o.dst_name # <<>>
                                 /\ o.dst_name[Len(o.dst_name)] = key}}

\* imports_by_scope[scope].get(key, set()): the targets the import rows of a
\* scope bind to a local name
imports_by_scope(R, scope, key) ==
    LET rows == {r \in Range(R) : r.relation \in {"imports", "imports_alias"}
                                  /\ lower_name(r.src_qualname) = scope
                                  /\ scope # <<>> /\ r.dst_name # <<>>}
        aliased == {parse_import_alias(r.dst_name) :
                        r \in {o \in rows : lower(o.relation) = "imports_alias"}}
        plain == {lower_name(r.dst_name) :
                        r \in {o \in rows : lower(o.relation) # "imports_alias"}}
    IN  {p[2] : p \in {a \in aliased : a[1] # "" /\ a[2] # <<>> /\ a[1] = key}}
        \cup {t \in plain : t[Len(t)] = key}

\* add_candidates(ids, confidence), as the set of its (entity id, confidence) offers
offers(ids, confidence) == {<<i, confidence>> : i \in ids}

\* the candidates dict after all add_candidates calls: every offered entity
\* with the greatest confidence offered for it
candidates_of(O) ==
    [i \in {o[1] : o \in O} |-> Max({o[2] : o \in {p \in O : p[1] = i}})]

pick_best_candidate(candidates) ==
    LET ids == DOMAIN candidates
    IN  IF ids = {}
        THEN <<NULL, 0>>
        ELSE IF Cardinality(ids) = 1
        THEN LET only == CHOOSE i \in ids : TRUE IN <<only, candidates[only]>>
        ELSE LET top_score == Max({candidates[i] : i \in ids})
                 top_id == CHOOSE i \in ids : candidates[i] = top_score
                 second_score == Max({candidates[i] : i \in ids \ {top_id}})
             IN  IF gap_at_least_015(top_score, second_score)
                 THEN <<top_id, top_score>>
                 ELSE <<NULL, 0>>

\* the (entity id, confidence) offers of all resolution steps for one relation
resolution_offers(relation_kind, fp, src_qualname, dst_name, src_entity_id, L, R) ==
    LET dst == lower_name(dst_name)
        module_name == lower_name(module_name_from_path(fp))
        src_rows == {e \in L : e.id = src_entity_id}
        src_kind == IF src_rows = {} THEN "" ELSE (CHOOSE e \in src_rows : TRUE).kind
        src_qual == IF src_rows = {} THEN lower_name(src_qualname)
                    ELSE (CHOOSE e \in src_rows : TRUE).ql
        src_class_qual == IF src_kind = "method" /\ Len(src_qual) > 1
                          THEN drop_last(src_qual)
                          ELSE IF src_kind = "class" THEN src_qual ELSE <<>>
        direct == entity_id_by_qualname(L, dst)
        is_dotted == Len(dst) > 1
        step_direct == IF direct # NULL THEN offers({direct}, ConfDirect) ELSE {}
        step_self ==
            IF is_dotted /\ dst[1] \in {"self", "cls"} /\ src_class_qual # <<>>
            THEN offers(candidate_ids_for_symbol(L, src_class_qual \o Tail(dst)), ConfSelf)
            ELSE {}
        class_ids == entity_ids_by_class_and_name(L, src_class_qual, dst)
        module_ids == entity_ids_by_module_and_name(L, module_name, dst)
        step_local ==
            IF ~is_dotted
            THEN (IF src_class_qual # <<>> /\ Cardinality(class_ids) = 1
                  THEN offers(class_ids, ConfClass) ELSE {})
                 \cup (IF Cardinality(module_ids) = 1
                       THEN offers(module_ids, ConfModule) ELSE {})
            ELSE offers(candidate_ids_for_symbol(L, module_name \o dst), ConfModuleSymbol)
        scopes == scope_chain(src_qualname, module_name)
        step_imports ==
            UNION {
              UNION { IF ~is_dotted
                      THEN offers(candidate_ids_for_symbol(L, imported),
                                  base_confidence(d - 1))
                      ELSE offers(candidate_ids_for_symbol(L, imported \o Tail(dst)),
                                  dotted_confidence(d - 1))
                      : imported \in imports_by_scope(R, scopes[d], dst[1]) }
              : d \in 1..Len(scopes) }
        suffix_ids == entity_ids_by_suffix(L, dst)
        name_ids == entity_ids_by_name(L, dst)
        step_suffix == IF Cardinality(suffix_ids) = 1 THEN offers(suffix_ids, ConfSuffix) ELSE {}
        step_name == IF Cardinality(name_ids) = 1 THEN offers(name_ids, ConfName) ELSE {}
    IN  IF dst = <<>>
        THEN {}
        ELSE IF relation_kind = "defines"
        THEN step_direct
        ELSE step_direct \cup step_self \cup step_local \cup step_imports
             \cup step_suffix \cup step_name

resolve_relation_destination(relation_kind, fp, src_qualname, dst_name, src_entity_id, L, R) ==
    pick_best_candidate(candidates_of(
        resolution_offers(relation_kind, fp, src_qualname, dst_name, src_entity_id, L, R)))

\* a flag that looks at the source end only
is_resolved_by_src(src_entity_id, dst_entity_id) ==
    IF src_entity_id # NULL THEN 1 ELSE 0

\* resolved = int(src_entity_id is not None and dst_entity_id is not None)
is_resolved(src_entity_id, dst_entity_id) ==
    IF src_entity_id # NULL /\ dst_entity_id # NULL THEN 1 ELSE 0

\* the link columns the resolution pass computes for one relation row
resolve_row(r, L, R) ==
    LET src_lower == lower_name(r.src_qualname)
        by_file == entity_id_by_file_qualname(L, r.file_path, src_lower)
        src_entity_id == IF by_file # NULL THEN by_file
                         ELSE entity_id_by_qualname(L, src_lower)
        picked == resolve_relation_destination(lower(r.relation), r.file_path,
                      r.src_qualname, r.dst_name, src_entity_id, L, R)
        resolved == is_resolved(src_entity_id, picked[1])
    IN  [r EXCEPT !.src_entity_id = src_entity_id,
                  !.dst_entity_id = picked[1],
                  !.resolved = resolved,
                  !.confidence = IF resolved = 1 THEN round4(picked[2]) ELSE 0]

\* a pass over the rows that have no source link yet: those inserted since
\* the pass before
resolve_relations_new_rows(E, R) ==
    [i \in 1..Len(R) |->
        IF R[i].src_entity_id = NULL THEN resolve_row(R[i], lowered(E), R) ELSE R[i]]

\* _resolve_relations: the relations table after the pass
resolve_relations(E, R) ==
    IF R = <<>>
    THEN R
    ELSE IF E = {}
    THEN [i \in 1..Len(R) |-> [R[i] EXCEPT !.src_entity_id = NULL, !.dst_entity_id = NULL,
                                           !.resolved = 0, !.confidence = 0]]
    ELSE LET L == lowered(E)
         IN  [i \in 1..Len(R) |-> resolve_row(R[i], L, R)]

(***************************************************************************)
(* The source trees the model runs on.  A world is one small repository:   *)
(* its paths and, for every path, the texts the file can hold.             *)
(***************************************************************************)
M_py == Path(<<"m">>, "py")
M_init_py == Path(<<"m", "__init__">>, "py")
C_py == Path(<<"c">>, "py")
Notes_txt == Path(<<"notes">>, "txt")
Service_py == Path(<<"service">>, "py")
Api_py == Path(<<"api">>, "py")
Run_py == Path(<<"run">>, "py")
Svc_py == Path(<<"svc">>, "py")
Pkg_g_py == Path(<<"pkg", "g">>, "py")
Root_init_py == Path(<<"__init__">>, "py")

\* The path strings in byte order: "." sorts before "/" and before letters,
\* "_" before the lower-case letters.
PathsSorted ==
    <<Root_init_py, Api_py, C_py, M_py, M_init_py, Notes_txt, Pkg_g_py, Run_py, Service_py,
      Svc_py>>

path_rank(fp) == CHOOSE i \in 1..Len(PathsSorted) : PathsSorted[i] = fp

\* class Foo: pass
\* m.Foo()
SrcClassFoo ==
    Source(TRUE, <<Class("Foo", 1, <<>>, <<>>), Call(<<"m", "Foo">>, 2)>>, FALSE)

\* def bar(): pass
SrcDefBar == Source(TRUE, <<Def("bar", 1, <<>>)>>, FALSE)

\* def Foo(): pass
SrcDefFoo == Source(TRUE, <<Def("Foo", 1, <<>>)>>, FALSE)

\* class Foo:
\*     def run(self): pass
\* class Sub(Foo):
\*     def run(self):
\*         Foo()
SrcFamily ==
    Source(TRUE,
           <<Class("Foo", 1, <<>>, <<Def("run", 2, <<>>)>>),
             Class("Sub", 3, <<<<"Foo">>>>, <<Def("run", 4, <<Call(<<"Foo">>, 5)>>)>>)>>,
           FALSE)

\* class Foo:
\*     def Run(self): pass
\* class Sub(Foo):
\*     def run(self): pass
SrcFamilyCase ==
    Source(TRUE,
           <<Class("Foo", 1, <<>>, <<Def("Run", 2, <<>>)>>),
             Class("Sub", 3, <<<<"Foo">>>>, <<Def("run", 4, <<>>)>>)>>,
           FALSE)

\* class Foo: pass
\* def f(): pass
\* def f():
\*     Foo(); c.Foo(); c.Foo()
\*     bar()
SrcTwice ==
    Source(TRUE,
           <<Class("Foo", 1, <<>>, <<>>),
             Def("f", 2, <<>>),
             Def("f", 3, <<Call(<<"Foo">>, 4), Call(<<"c", "Foo">>, 4),
                           Call(<<"c", "Foo">>, 4), Call(<<"bar">>, 5)>>)>>,
           FALSE)

\* def foo(token): return token
SrcServiceFoo == Source(TRUE, <<Def("foo", 1, <<>>)>>, FALSE)

\* def bar(token): return token
SrcServiceBar == Source(TRUE, <<Def("bar", 1, <<>>)>>, FALSE)

\* def bar(token: return token          (a syntax error)
SrcServiceBroken == Source(FALSE, <<>>, FALSE)

\* from service import foo
\* def login(token):
\*     return foo(token)
SrcApiFoo ==
    Source(TRUE,
           <<ImportFrom(<<"service">>, 0, <<Alias(<<"foo">>, "")>>, 1),
             Def("login", 2, <<Call(<<"foo">>, 3)>>)>>,
           FALSE)

\* from service import bar
\* def login(token):
\*     return bar(token)
SrcApiBar ==
    Source(TRUE,
           <<ImportFrom(<<"service">>, 0, <<Alias(<<"bar">>, "")>>, 1),
             Def("login", 2, <<Call(<<"bar">>, 3)>>)>>,
           FALSE)

\* the same text followed by a comment that takes it over max_file_size
SrcApiBarBig == [SrcApiBar EXCEPT !.big = TRUE]

\* x = 1
SrcNoDefs == Source(TRUE, <<>>, FALSE)

\* def run(): pass
\* def main():
\*     run()
SrcRunMain ==
    Source(TRUE, <<Def("run", 1, <<>>), Def("main", 2, <<Call(<<"run">>, 3)>>)>>, FALSE)

\* def f(): pass
\* def g(): pass
SrcDefFG == Source(TRUE, <<Def("f", 1, <<>>), Def("g", 2, <<>>)>>, FALSE)

\* from pkg.g import f as g
\* g()
SrcAliasCall ==
    Source(TRUE,
           <<ImportFrom(<<"pkg", "g">>, 0, <<Alias(<<"f">>, "g")>>, 1), Call(<<"g">>, 2)>>,
           FALSE)

\* def foo(): pass
\* def bar(): pass
SrcServiceFooBar == Source(TRUE, <<Def("foo", 1, <<>>), Def("bar", 2, <<>>)>>, FALSE)

\* from service import foo
\* from service import foo as bar
\* import service as svc
\* def login():
\*     foo()
\*     bar()
\*     svc.foo()
\*     pkg.foo()
SrcImportCalls ==
    Source(TRUE,
           <<ImportFrom(<<"service">>, 0, <<Alias(<<"foo">>, "")>>, 1),
             ImportFrom(<<"service">>, 0, <<Alias(<<"foo">>, "bar")>>, 2),
             Import(<<Alias(<<"service">>, "svc")>>, 3),
             Def("login", 4, <<Call(<<"foo">>, 5), Call(<<"bar">>, 6),
                               Call(<<"svc", "foo">>, 7), Call(<<"pkg", "foo">>, 8)>>)>>,
           FALSE)

\* from service import foo
\* def f():
\*     def g():
\*         def run():
\*             def main():
\*                 foo()
SrcNestedCall ==
    Source(TRUE,
           <<ImportFrom(<<"service">>, 0, <<Alias(<<"foo">>, "")>>, 1),
             Def("f", 2,
                 <<Def("g", 3,
                       <<Def("run", 4,
                             <<Def("main", 5, <<Call(<<"foo">>, 6)>>)>>)>>)>>)>>,
           FALSE)

\* class Foo:
\*     def run(self): pass
\*     def main(self):
\*         self.run()
\*         cls.run()
\*         this.run()
SrcMembers ==
    Source(TRUE,
           <<Class("Foo", 1, <<>>,
                   <<Def("run", 2, <<>>),
                     Def("main", 3, <<Call(<<"self", "run">>, 4), Call(<<"cls", "run">>, 5),
                                      Call(<<"this", "run">>, 6)>>)>>)>>,
           FALSE)

\* class Foo:
\*     def main(self):
\*         self.run()
\*         this.run()
\* def run(): pass
SrcMembersOutside ==
    Source(TRUE,
           <<Class("Foo", 1, <<>>,
                   <<Def("main", 2, <<Call(<<"self", "run">>, 3),
                                      Call(<<"this", "run">>, 4)>>)>>),
             Def("run", 5, <<>>)>>,
           FALSE)

Worlds == {"dup", "rename", "shadow", "gap", "family", "root", "imports"}

WorldPaths(w) ==
    CASE w = "dup" -> {M_py, M_init_py}
      [] w = "rename" -> {Service_py, Api_py}
      [] w = "shadow" -> {Run_py, Svc_py}
      [] w = "gap" -> {Pkg_g_py, C_py}
      [] w = "family" -> {C_py, Notes_txt}
      [] w = "root" -> {Root_init_py, Notes_txt}
      [] w = "imports" -> {Service_py, C_py}
      [] w = "members" -> {C_py, Notes_txt}

\* the texts a file of a world can hold
Sources(w, fp) ==
    CASE w = "dup" /\ fp = M_py -> {SrcClassFoo, SrcDefBar}
      [] w = "dup" /\ fp = M_init_py -> {SrcDefFoo}
      [] w = "rename" /\ fp = Service_py -> {SrcServiceFoo, SrcServiceBar, SrcServiceBroken}
      [] w = "rename" /\ fp = Api_py -> {SrcApiFoo, SrcApiBar, SrcApiBarBig}
      [] w = "shadow" /\ fp = Run_py -> {SrcNoDefs}
      [] w = "shadow" /\ fp = Svc_py -> {SrcRunMain}
      [] w = "gap" /\ fp = Pkg_g_py -> {SrcDefFG}
      [] w = "gap" /\ fp = C_py -> {SrcAliasCall}
      [] w = "family" /\ fp = C_py -> {SrcFamily, SrcTwice, SrcFamilyCase}
      [] w = "family" /\ fp = Notes_txt -> {SrcNoDefs}
      [] w = "root" /\ fp = Root_init_py -> {SrcDefFoo}
      [] w = "root" /\ fp = Notes_txt -> {SrcNoDefs}
      [] w = "imports" /\ fp = Service_py -> {SrcServiceFoo, SrcServiceFooBar}
      [] w = "imports" /\ fp = C_py -> {SrcImportCalls, SrcNestedCall}
      [] w = "members" /\ fp = C_py -> {SrcMembers, SrcMembersOutside}
      [] w = "members" /\ fp = Notes_txt -> {SrcNoDefs}
      [] OTHER -> {}

\* the files whose read permission the model takes away
Lockable(w) == IF w = "rename" THEN {Api_py} ELSE {}

\* the file lists a caller hands to rebuild_entity_graph
RebuildLists(w) ==
    CASE w = "dup" -> {<<M_py, M_init_py>>, <<M_init_py, M_py>>}
      [] w = "rename" -> {<<Service_py, Api_py>>}
      [] w = "shadow" -> {<<Run_py, Svc_py>>}
      [] w = "gap" -> {<<Pkg_g_py, C_py>>}
      [] w = "family" -> {<<C_py, Notes_txt>>}
      [] w = "root" -> {<<Root_init_py, Notes_txt>>}
      [] w = "imports" -> {<<Service_py, C_py>>}
      [] w = "members" -> {<<C_py, Notes_txt>>}

\* the sequences without repetition of at most n paths of a set
SeqsUpTo(S, n) ==
    UNION {{q \in [1..k -> S] : \A i, j \in 1..k : i # j => q[i] # q[j]} : k \in 0..n}

\* the longest changed and deleted lists the model hands to an update
MaxChanged == 2
MaxDeleted == 1

MissingFile == [st |-> "missing", src |-> SrcNoDefs]

(***************************************************************************)
(* The Deriver.  SQLite reads a table without ORDER BY in the order of the *)
(* index the plan scans: relations filtered on (relation, resolved) come   *)
(* in idx_relations_resolution order (confidence, rowid), the class rows   *)
(* in idx_entities_unique order (file_path, qualname, kind), the method    *)
(* rows in rowid order.                                                    *)
(***************************************************************************)
\* The identifiers in byte order (BINARY collation).
AtomsSorted ==
    <<"Foo", "Run", "Sub", "__init__", "api", "bar", "c", "cls", "f", "foo", "g", "login",
      "m", "main", "module", "notes", "pkg", "run", "self", "service", "svc", "this">>

atom_rank(a) == CHOOSE i \in 1..Len(AtomsSorted) : AtomsSorted[i] = a

\* sequences of integers of one length, compared from the left
RECURSIVE lex_less(_, _)
lex_less(a, b) ==
    IF a = <<>> \/ b = <<>>
    THEN FALSE
    ELSE IF Head(a) # Head(b) THEN Head(a) < Head(b) ELSE lex_less(Tail(a), Tail(b))

\* a dotted name as its sort key, padded to the longest qualname
MaxNameLen == 4

name_key(n) == [i \in 1..MaxNameLen |-> IF i <= Len(n) THEN atom_rank(n[i]) ELSE 0]

\* the rows of a set in the order of their integer sort keys k
RECURSIVE in_key_order(_)
in_key_order(S) ==
    IF S = {}
    THEN <<>>
    ELSE LET first == CHOOSE a \in S : \A b \in S : a = b \/ ~lex_less(b.k, a.k)
         IN  <<first>> \o in_key_order(S \ {first})

RECURSIVE concat(_)
concat(ss) == IF ss = <<>> THEN <<>> ELSE Head(ss) \o concat(Tail(ss))

\* the positions of the rows of one relation kind with resolved = 1, as
\* idx_relations_resolution yields them
resolved_in_index_order(R, kind) ==
    LET hits == {[i |-> i, k |-> <<R[i].confidence, i>>] :
                    i \in {j \in 1..Len(R) : R[j].relation = kind /\ R[j].resolved = 1}}
        ordered == in_key_order(hits)
    IN  [n \in 1..Len(ordered) |-> R[ordered[n].i]]

\* an instantiates row for every resolved call, whatever it calls
instantiates_rows_any_kind(E, R) ==
    LET calls == resolved_in_index_order(R, "calls")
    IN  [n \in 1..Len(calls) |->
            [calls[n] EXCEPT !.relation = "instantiates",
                             !.dst_name = (CHOOSE e \in E : e.id = calls[n].dst_entity_id).qualname]]

\* the INSERT ... SELECT of the instantiates rows
instantiates_rows(E, R) ==
    LET calls == resolved_in_index_order(R, "calls")
        class_of(r) == {e \in E : e.id = r.dst_entity_id /\ e.kind = "class"}
        hits == SelectSeq(calls, LAMBDA r : class_of(r) # {})
    IN  [n \in 1..Len(hits) |->
            [file_path |-> hits[n].file_path, src_qualname |-> hits[n].src_qualname,
             dst_name |-> (CHOOSE e \in class_of(hits[n]) : TRUE).qualname,
             relation |-> "instantiates", line |-> hits[n].line,
             src_entity_id |-> hits[n].src_entity_id,
             dst_entity_id |-> hits[n].dst_entity_id,
             resolved |-> 1, confidence |-> hits[n].confidence]]

\* class_id_by_qualname.get: of the classes with one lower-cased qualname the
\* last in idx_entities_unique order
class_id_by_qualname(E, q) ==
    LET hits == {[id |-> e.id, k |-> <<path_rank(e.file_path)>> \o name_key(e.qualname)] :
                    e \in {o \in E : o.kind = "class" /\ lower_name(o.qualname) = q}}
        ordered == in_key_order(hits)
    IN  IF hits = {} THEN NULL ELSE ordered[Len(ordered)].id

\* methods_by_class_and_name: the method rows filed under a class id
methods_of_class(E, class_id) ==
    {e \in E : /\ e.kind = "method"
               /\ Len(e.qualname) > 1
               /\ class_id # NULL
               /\ class_id_by_qualname(E, drop_last(lower_name(e.qualname)))
                      = class_id}

\* override_rows: for every resolved inherits row, every pair of a subclass
\* method and a base-class method of one lower-cased name
overrides_rows(E, R) ==
    LET inheritance == resolved_in_index_order(R, "inherits")
        linked == SelectSeq(inheritance,
                     LAMBDA r : r.src_entity_id # NULL /\ r.dst_entity_id # NULL)
        pairs(r) ==
            {[sub |-> s, base |-> b, k |-> <<s.id, b.id>>] :
                <<s, b>> \in {sb \in methods_of_class(E, r.src_entity_id)
                                     \X methods_of_class(E, r.dst_entity_id) :
                                 lower_name(sb[1].name) = lower_name(sb[2].name)}}
        rows_for(r) ==
            LET ordered == in_key_order(pairs(r))
            IN  [n \in 1..Len(ordered) |->
                    [file_path |-> ordered[n].sub.file_path,
                     src_qualname |-> ordered[n].sub.qualname,
                     dst_name |-> ordered[n].base.qualname,
                     relation |-> "overrides", line |-> ordered[n].sub.line,
                     src_entity_id |-> ordered[n].sub.id,
                     dst_entity_id |-> ordered[n].base.id,
                     resolved |-> 1, confidence |-> ConfDirect]]
    IN  concat([n \in 1..Len(linked) |-> rows_for(linked[n])])

\* a pass that keeps the derived rows it finds and adds its rows with a
\* plain INSERT
derive_rich_relations_appending(store) ==
    LET inst == instantiates_rows(store.entities, store.relations)
        over == overrides_rows(store.entities, store.relations)
    IN  [store EXCEPT !.relations =
            @ \o [n \in 1..Len(inst) |-> inst[n]] \o [n \in 1..Len(over) |-> over[n]]]

\* _derive_rich_relations: the store after the pass
derive_rich_relations(store) ==
    LET kept == [store EXCEPT
                    !.relations = SelectSeq(@, LAMBDA r :
                                      r.relation \notin {"instantiates", "overrides"})]
        with_inst == insert_relations(kept,
                        instantiates_rows(kept.entities, kept.relations))
    IN  IF {e \in kept.entities : e.kind = "class"} = {}
        THEN with_inst
        ELSE insert_relations(with_inst,
                 overrides_rows(with_inst.entities, with_inst.relations))

(***************************************************************************)
(* The program state: the source tree, the committed store, and the one    *)
(* running rebuild or update with the uncommitted rows of its connection.  *)
(***************************************************************************)
VARIABLES
    world,      \* the repository the run is about
    files,      \* path -> [st: "missing" | "ok" | "unreadable", src: its text]
    db,         \* the committed store
    tx,         \* the store as the running operation's connection sees it
    pc,         \* position of the running operation
    op,         \* the running operation and its arguments
    pre,        \* the committed store when the running operation began
    lock_pc,    \* process -> its position in FileLock.acquire / release
    lock_path,  \* the inode the sidecar path names, NoFile if there is none
    lock_file,  \* process -> the inode its self._lock_file is open on
    flocked,    \* inode -> the process whose open file holds LOCK_EX on it
    aged,       \* whether the sidecar file's mtime is more than 60 s ago
    seen,       \* the query that returned last and its answer
    commits,    \* the trees of the git history, HEAD last
    index_state \* the index state file: the commit recorded as last_commit

store_vars == <<world, files, db, tx, pc, op, pre>>

lock_vars == <<lock_pc, lock_path, lock_file, flocked, aged>>

view_vars == <<seen>>

index_vars == <<commits, index_state>>

vars == <<store_vars, lock_vars, view_vars, index_vars>>

\* the processes that use one FileLock path
NumProcs == 2

Procs == 1..NumProcs

NoFile == 0

NoProc == 0

\* inode numbers: each process has at most one file open, the path names one
Inodes == 1..(NumProcs + 1)

\* load_index_state() when there is no index state file
NoState == [last_commit |-> NULL]

\* cmd_index has not run and the tree is not under git
NoIndex ==
    /\ commits = <<>>
    /\ index_state = NoState

\* no FileLock is in use
LockIdle ==
    /\ lock_pc = [p \in Procs |-> "idle"]
    /\ lock_path = NoFile
    /\ lock_file = [p \in Procs |-> NoFile]
    /\ flocked = [i \in Inodes |-> NoProc]
    /\ aged = FALSE

\* no query has returned
NoAnswer == [fn |-> "none"]

NoOp == [kind |-> "none", files |-> <<>>, changed |-> <<>>, deleted |-> <<>>, todo |-> <<>>]

\* a connection in autocommit mode: every statement is committed as it runs
rollback_nothing(committed, working) == working

\* sqlite3.Connection.__exit__ on an exception, and what a killed writer's
\* journal leaves: the committed rows
rollback(committed, working) == committed

\* conn.commit()
commit(committed, working) == working

Init ==
    /\ world \in Worlds
    /\ files = [fp \in WorldPaths(world) |->
                   IF fp = Notes_txt THEN [st |-> "ok", src |-> SrcNoDefs] ELSE MissingFile]
    /\ db = EmptyStore
    /\ tx = EmptyStore
    /\ pc = "idle"
    /\ op = NoOp
    /\ pre = EmptyStore
    /\ LockIdle
    /\ seen = NoAnswer
    /\ NoIndex

\* the developer writes a file
WriteFile(fp, src) ==
    /\ pc = "idle"
    /\ files' = [files EXCEPT ![fp] = [st |-> "ok", src |-> src]]
    /\ UNCHANGED <<lock_vars, view_vars, world, db, tx, pc, op, pre, index_vars>>

\* the developer deletes a file
RemoveFile(fp) ==
    /\ pc = "idle"
    /\ files[fp].st # "missing"
    /\ files' = [files EXCEPT ![fp] = MissingFile]
    /\ UNCHANGED <<lock_vars, view_vars, world, db, tx, pc, op, pre, index_vars>>

\* a file loses its read permission
ProtectFile(fp) ==
    /\ pc = "idle"
    /\ files[fp].st = "ok"
    /\ files' = [files EXCEPT ![fp].st = "unreadable"]
    /\ UNCHANGED <<lock_vars, view_vars, world, db, tx, pc, op, pre, index_vars>>

\* rebuild_entity_graph(files): the lock is taken and the connection opened
BeginRebuild(fl) ==
    /\ pc = "idle"
    /\ db.seq <= MaxSeq
    /\ pc' = "clear"
    /\ op' = [NoOp EXCEPT !.kind = "rebuild", !.files = fl, !.todo = fl]
    /\ tx' = db
    /\ pre' = db
    /\ UNCHANGED <<lock_vars, view_vars, world, files, db, index_vars>>

\* update_entity_graph_incremental(changed_files, deleted_files, ...)
BeginUpdate(changed, deleted) ==
    /\ pc = "idle"
    /\ db.seq <= MaxSeq
    /\ pc' = "clear"
    /\ op' = [NoOp EXCEPT !.kind = "update", !.changed = changed, !.deleted = deleted,
                          !.todo = changed]
    /\ tx' = db
    /\ pre' = db
    /\ UNCHANGED <<lock_vars, view_vars, world, files, db, index_vars>>

RECURSIVE clear_paths(_, _)
\* for rel_path in touched_paths: _clear_file_graph(conn, rel_path)
clear_paths(store, paths) ==
    IF paths = <<>>
    THEN store
    ELSE clear_paths(clear_file_graph(store, Head(paths)), Tail(paths))

\* DELETE FROM relations; DELETE FROM entities
clear_all(store) == [store EXCEPT !.relations = <<>>, !.entities = {}]

\* the deletes that open the operation's transaction
ClearRows ==
    /\ pc = "clear"
    /\ tx' = IF op.kind = "rebuild"
             THEN clear_all(tx)
             ELSE clear_paths(tx, op.changed \o op.deleted)
    /\ pc' = "index"
    /\ UNCHANGED <<lock_vars, view_vars, world, files, db, op, pre, index_vars>>

\* whether the loop body of the operation skips the file
skips(kind, fp, file) ==
    \/ file.st = "missing"
    \/ ~supports_path(fp)
    \/ kind = "update" /\ (file.src.big \/ file.st = "unreadable")

\* whether read_text raises OSError out of the loop body (rebuild_entity_graph
\* does not catch it)
raises(kind, fp, file) ==
    kind = "rebuild" /\ ~skips(kind, fp, file) /\ file.st = "unreadable"

\* the file at a path of the source tree
file_at(fls, fp) == IF fp \in DOMAIN fls THEN fls[fp] ELSE MissingFile

\* one round of the loop over the files
index_step(store, kind, fp, file) ==
    IF skips(kind, fp, file) THEN store ELSE index_file_content(store, fp, file.src)

\* one round of the loop over the files: the file is skipped or indexed
IndexFile ==
    /\ pc = "index"
    /\ op.todo # <<>>
    /\ ~raises(op.kind, Head(op.todo), file_at(files, Head(op.todo)))
    /\ tx' = index_step(tx, op.kind, Head(op.todo), file_at(files, Head(op.todo)))
    /\ op' = [op EXCEPT !.todo = Tail(@)]
    /\ UNCHANGED <<lock_vars, view_vars, world, files, db, pc, pre, index_vars>>

\* read_text raises OSError in the loop of rebuild_entity_graph, which does
\* not catch it: the connection rolls back and the error reaches the caller
ReadFails ==
    /\ pc = "index"
    /\ op.todo # <<>>
    /\ raises(op.kind, Head(op.todo), file_at(files, Head(op.todo)))
    /\ db' = rollback(db, tx)
    /\ tx' = rollback(db, tx)
    /\ pc' = "failed"
    /\ UNCHANGED <<lock_vars, view_vars, world, files, op, pre, index_vars>>

\* _resolve_relations(conn)
Resolve ==
    /\ pc = "index"
    /\ op.todo = <<>>
    /\ tx' = [tx EXCEPT !.relations = resolve_relations(tx.entities, tx.relations)]
    /\ pc' = "derive"
    /\ UNCHANGED <<lock_vars, view_vars, world, files, db, op, pre, index_vars>>

\* _derive_rich_relations(conn)
Derive ==
    /\ pc = "derive"
    /\ tx' = derive_rich_relations(tx)
    /\ pc' = "commit"
    /\ UNCHANGED <<lock_vars, view_vars, world, files, db, op, pre, index_vars>>

\* conn.commit(); the lock is released and the operation returns
Commit ==
    /\ pc = "commit"
    /\ db' = commit(db, tx)
    /\ tx' = commit(db, tx)
    /\ pc' = "done"
    /\ UNCHANGED <<lock_vars, view_vars, world, files, op, pre, index_vars>>

\* a persistence failure (sqlite3.Error, a full disk, a killed process)
\* anywhere between the first delete and the commit
Fail ==
    /\ pc \in {"index", "derive", "commit"}
    /\ db' = rollback(db, tx)
    /\ tx' = rollback(db, tx)
    /\ pc' = "failed"
    /\ UNCHANGED <<lock_vars, view_vars, world, files, op, pre, index_vars>>

\* the caller goes on
Return ==
    /\ pc \in {"done", "failed"}
    /\ pc' = "idle"
    /\ op' = NoOp
    /\ tx' = db
    /\ pre' = db
    /\ UNCHANGED <<lock_vars, view_vars, world, files, db, index_vars>>

(***************************************************************************)
(* Opening a connection: _connect runs _ensure_schema before it returns    *)
(* the connection.  A store written under an older schema has a relations  *)
(* table without some of the link columns; its rows then have no such      *)
(* fields.                                                                 *)
(***************************************************************************)
\* _table_columns(conn, "relations")
table_columns(store) == store.columns

\* _ensure_column: ALTER TABLE relations ADD COLUMN gives every row of the
\* table the column with its default
ensure_column(store, column) ==
    IF column \in table_columns(store)
    THEN store
    ELSE [store EXCEPT
            !.columns = @ \cup {column},
            !.relations = [i \in 1..Len(store.relations) |->
                             store.relations[i] @@ [c \in {column} |-> Unlinked[c]]]]

\* the four _ensure_column calls, in their order
ensure_columns(store) ==
    ensure_column(
        ensure_column(
            ensure_column(
                ensure_column(store, "src_entity_id"),
                "dst_entity_id"),
            "resolved"),
        "confidence")

\* added_link_columns
added_link_columns(before, after) == table_columns(before) # table_columns(after)

(***************************************************************************)
(* The two operations from end to end, as functions of the committed store *)
(* and the source tree.                                                    *)
(***************************************************************************)
RECURSIVE index_files(_, _, _, _)
\* the loop over the files, run to its end
index_files(store, kind, todo, fls) ==
    IF todo = <<>>
    THEN store
    ELSE index_files(index_step(store, kind, Head(todo), file_at(fls, Head(todo))),
                     kind, Tail(todo), fls)

\* _resolve_relations(conn) then _derive_rich_relations(conn)
link_pass(store) ==
    derive_rich_relations(
        [store EXCEPT !.relations = resolve_relations(store.entities, store.relations)])

\* whether the loop of a rebuild meets a file whose read raises
rebuild_raises(fl, fls) ==
    \E i \in 1..Len(fl) : raises("rebuild", fl[i], file_at(fls, fl[i]))

\* the store a rebuild that runs to its commit leaves
rebuild_entity_graph(store, fl, fls) ==
    link_pass(index_files(clear_all(store), "rebuild", fl, fls))

\* the store an incremental update that runs to its commit leaves
update_entity_graph_incremental(store, changed, deleted, fls) ==
    link_pass(index_files(clear_paths(store, changed \o deleted), "update", changed, fls))

Next ==
    \/ \E fp \in WorldPaths(world) : \E src \in Sources(world, fp) : WriteFile(fp, src)
    \/ \E fp \in WorldPaths(world) \ {Notes_txt} : RemoveFile(fp)
    \/ \E fp \in Lockable(world) : ProtectFile(fp)
    \/ \E fl \in RebuildLists(world) : BeginRebuild(fl)
    \/ \E changed \in SeqsUpTo(WorldPaths(world), MaxChanged) :
         \E deleted \in SeqsUpTo(WorldPaths(world), MaxDeleted) :
            BeginUpdate(changed, deleted)
    \/ ClearRows
    \/ IndexFile
    \/ ReadFails
    \/ Resolve
    \/ Derive
    \/ Commit
    \/ Fail
    \/ Return

Spec == Init /\ [][Next]_vars

(***************************************************************************)
(* FileLock, statement by statement.  The sidecar path names an inode;     *)
(* open creates or truncates the file the path names at that moment, and   *)
(* flock locks the inode the process has open, whatever the path names by  *)
(* then.  The retry loop runs on wall-clock time, which is not modelled: a *)
(* failed attempt either retries or finds the timeout over.                *)
(***************************************************************************)
\* an inode number no path and no open file refers to
fresh_inode ==
    CHOOSE i \in Inodes :
        /\ i # lock_path
        /\ \A p \in Procs : lock_file[p] # i
        /\ \A j \in Inodes :
               (j # lock_path /\ \A p \in Procs : lock_file[p] # j) => i <= j

\* acquire() is called
Acquire(p) ==
    /\ lock_pc[p] = "idle"
    /\ lock_pc' = [lock_pc EXCEPT ![p] = "exists"]
    /\ UNCHANGED <<store_vars, view_vars, lock_path, lock_file, flocked, aged, index_vars>>

\* if self.lock_path.exists():
Exists(p) ==
    /\ lock_pc[p] = "exists"
    /\ lock_pc' = [lock_pc EXCEPT ![p] = IF lock_path = NoFile THEN "open" ELSE "stat"]
    /\ UNCHANGED <<store_vars, view_vars, lock_path, lock_file, flocked, aged, index_vars>>

\* age = time.time() - self.lock_path.stat().st_mtime; if age > 60:
Stat(p) ==
    /\ lock_pc[p] = "stat"
    /\ lock_pc' = [lock_pc EXCEPT ![p] = CASE lock_path = NoFile -> "sleep"
                                           [] aged -> "unlink"
                                           [] OTHER -> "open"]
    /\ UNCHANGED <<store_vars, view_vars, lock_path, lock_file, flocked, aged, index_vars>>

\* an acquire that opens the sidecar file it found stale, without removing it
UnlinkStale_kept(p) ==
    /\ lock_pc[p] = "unlink"
    /\ lock_pc' = [lock_pc EXCEPT ![p] = "open"]
    /\ UNCHANGED <<store_vars, view_vars, lock_path, lock_file, flocked, aged, index_vars>>

\* self.lock_path.unlink() of a lock file found stale
UnlinkStale(p) ==
    /\ lock_pc[p] = "unlink"
    /\ lock_pc' = [lock_pc EXCEPT ![p] = IF lock_path = NoFile THEN "sleep" ELSE "open"]
    /\ lock_path' = NoFile
    /\ aged' = FALSE
    /\ UNCHANGED <<store_vars, view_vars, lock_file, flocked, index_vars>>

\* self._lock_file = open(self.lock_path, "w")
Open(p) ==
    /\ lock_pc[p] = "open"
    /\ LET inode == IF lock_path = NoFile THEN fresh_inode ELSE lock_path
       IN  /\ lock_path' = inode
           /\ lock_file' = [lock_file EXCEPT ![p] = inode]
    /\ aged' = FALSE
    /\ lock_pc' = [lock_pc EXCEPT ![p] = "flock"]
    /\ UNCHANGED <<store_vars, view_vars, flocked, index_vars>>

\* _lock_file(self._lock_file): flock(LOCK_EX | LOCK_NB)
Flock(p) ==
    /\ lock_pc[p] = "flock"
    /\ IF flocked[lock_file[p]] = NoProc
       THEN /\ flocked' = [flocked EXCEPT ![lock_file[p]] = p]
            /\ lock_pc' = [lock_pc EXCEPT ![p] = "write"]
       ELSE /\ lock_pc' = [lock_pc EXCEPT ![p] = "sleep"]
            /\ UNCHANGED flocked
    /\ UNCHANGED <<store_vars, view_vars, lock_path, lock_file, aged, index_vars>>

\* write(str(os.getpid())); flush(); return True
WritePid(p) ==
    /\ lock_pc[p] = "write"
    /\ aged' = IF lock_file[p] = lock_path THEN FALSE ELSE aged
    /\ lock_pc' = [lock_pc EXCEPT ![p] = "held"]
    /\ UNCHANGED <<store_vars, view_vars, lock_path, lock_file, flocked, index_vars>>

\* except OSError: time.sleep(0.1), and the loop goes round again
Retry(p) ==
    /\ lock_pc[p] = "sleep"
    /\ lock_pc' = [lock_pc EXCEPT ![p] = "exists"]
    /\ UNCHANGED <<store_vars, view_vars, lock_path, lock_file, flocked, aged, index_vars>>

\* the loop ends on the timeout: return False
TimeOut(p) ==
    /\ lock_pc[p] = "sleep"
    /\ lock_pc' = [lock_pc EXCEPT ![p] = "idle"]
    /\ UNCHANGED <<store_vars, view_vars, lock_path, lock_file, flocked, aged, index_vars>>

\* release(): _unlock_file(self._lock_file)
Unlock(p) ==
    /\ lock_pc[p] = "held"
    /\ flocked' = [flocked EXCEPT ![lock_file[p]] = NoProc]
    /\ lock_pc' = [lock_pc EXCEPT ![p] = "close"]
    /\ UNCHANGED <<store_vars, view_vars, lock_path, lock_file, aged, index_vars>>

\* self._lock_file.close()
Close(p) ==
    /\ lock_pc[p] = "close"
    /\ lock_file' = [lock_file EXCEPT ![p] = NoFile]
    /\ lock_pc' = [lock_pc EXCEPT ![p] = "released"]
    /\ UNCHANGED <<store_vars, view_vars, lock_path, flocked, aged, index_vars>>

\* if self.lock_path.exists(): self.lock_path.unlink()
Unlink(p) ==
    /\ lock_pc[p] = "released"
    /\ lock_path' = NoFile
    /\ aged' = FALSE
    /\ lock_pc' = [lock_pc EXCEPT ![p] = "idle"]
    /\ UNCHANGED <<store_vars, view_vars, lock_file, flocked, index_vars>>

\* more than 60 s pass without a write to the sidecar file
Tick ==
    /\ lock_path # NoFile
    /\ ~aged
    /\ aged' = TRUE
    /\ UNCHANGED <<store_vars, view_vars, lock_pc, lock_path, lock_file, flocked, index_vars>>

InitLock ==
    /\ world = "family"
    /\ files = [fp \in WorldPaths(world) |-> MissingFile]
    /\ db = EmptyStore
    /\ tx = EmptyStore
    /\ pc = "idle"
    /\ op = NoOp
    /\ pre = EmptyStore
    /\ LockIdle
    /\ seen = NoAnswer
    /\ NoIndex

NextLock ==
    \/ \E p \in Procs :
        \/ Acquire(p)
        \/ Exists(p)
        \/ Stat(p)
        \/ UnlinkStale(p)
        \/ Open(p)
        \/ Flock(p)
        \/ WritePid(p)
        \/ Retry(p)
        \/ TimeOut(p)
        \/ Unlock(p)
        \/ Close(p)
        \/ Unlink(p)
    \/ Tick

SpecLock == InitLock /\ [][NextLock]_vars

(***************************************************************************)
(* FileLock with holders that can be killed.  A process that runs acquire  *)
(* or release goes on to its next statement; nothing makes a process call  *)
(* acquire or release.                                                     *)
(***************************************************************************)
\* a holder is killed: the kernel closes its file, which drops its flock;
\* release does not run and the sidecar file stays
Die(p) ==
    /\ lock_pc[p] = "held"
    /\ flocked' = [i \in Inodes |-> IF flocked[i] = p THEN NoProc ELSE flocked[i]]
    /\ lock_file' = [lock_file EXCEPT ![p] = NoFile]
    /\ lock_pc' = [lock_pc EXCEPT ![p] = "idle"]
    /\ UNCHANGED <<store_vars, view_vars, lock_path, aged, index_vars>>

\* the next statement of acquire or of release
Proceed(p) ==
    \/ Exists(p)
    \/ Stat(p)
    \/ UnlinkStale(p)
    \/ Open(p)
    \/ Flock(p)
    \/ WritePid(p)
    \/ Retry(p)
    \/ TimeOut(p)
    \/ Close(p)
    \/ Unlink(p)

NextRecover ==
    \/ \E p \in Procs :
        \/ Acquire(p)
        \/ Exists(p)
        \/ Stat(p)
        \/ UnlinkStale(p)
        \/ Open(p)
        \/ Flock(p)
        \/ WritePid(p)
        \/ Retry(p)
        \/ TimeOut(p)
        \/ Unlock(p)
        \/ Close(p)
        \/ Unlink(p)
        \/ Die(p)
    \/ Tick

\* a process inside acquire or release runs on
RunsOn == \A p \in Procs : WF_vars(Proceed(p))

SpecRecover == InitLock /\ [][NextRecover]_vars /\ RunsOn

(***************************************************************************)
(* A rebuild or incremental update under its FileLock, beside another      *)
(* holder: the operation enters "with FileLock(db_path)", then opens its   *)
(* connection, and releases the lock when the block is left.               *)
(***************************************************************************)
\* the process that runs the operations on the store
Builder == 1

\* the process that holds the lock when the Builder asks for it
Other == 2

\* rebuild_entity_graph(files) reaches "with FileLock(db_path)"
LockForRebuild(fl) ==
    /\ pc = "idle"
    /\ lock_pc[Builder] = "idle"
    /\ db.seq <= MaxSeq
    /\ pc' = "lock"
    /\ op' = [NoOp EXCEPT !.kind = "rebuild", !.files = fl, !.todo = fl]
    /\ tx' = db
    /\ pre' = db
    /\ lock_pc' = [lock_pc EXCEPT ![Builder] = "exists"]
    /\ UNCHANGED <<view_vars, world, files, db, lock_path, lock_file, flocked, aged, index_vars>>

\* update_entity_graph_incremental(...) reaches "with FileLock(db_path)"
LockForUpdate(changed, deleted) ==
    /\ pc = "idle"
    /\ lock_pc[Builder] = "idle"
    /\ db.seq <= MaxSeq
    /\ pc' = "lock"
    /\ op' = [NoOp EXCEPT !.kind = "update", !.changed = changed, !.deleted = deleted,
                          !.todo = changed]
    /\ tx' = db
    /\ pre' = db
    /\ lock_pc' = [lock_pc EXCEPT ![Builder] = "exists"]
    /\ UNCHANGED <<view_vars, world, files, db, lock_path, lock_file, flocked, aged, index_vars>>

\* __enter__: acquire() returned False, OSError leaves the operation
EnterRaises ==
    /\ pc = "lock"
    /\ lock_pc[Builder] = "idle"
    /\ pc' = "refused"
    /\ UNCHANGED <<lock_vars, view_vars, world, files, db, tx, op, pre, index_vars>>

\* a block that is entered whether or not acquire() returned True
Enter_unlocked ==
    /\ pc = "lock"
    /\ lock_pc[Builder] \in {"idle", "held"}
    /\ pc' = "clear"
    /\ UNCHANGED <<lock_vars, view_vars, world, files, db, tx, op, pre, index_vars>>

\* __enter__ returns: acquire() returned True, the connection is opened
Enter ==
    /\ pc = "lock"
    /\ lock_pc[Builder] = "held"
    /\ pc' = "clear"
    /\ UNCHANGED <<lock_vars, view_vars, world, files, db, tx, op, pre, index_vars>>

\* __exit__: release() begins when the block is left, by the commit or by an
\* exception
ExitLock ==
    /\ pc \in {"done", "failed"}
    /\ Unlock(Builder)

\* the operation returns to its caller, or its exception reaches the caller
ReturnToCaller ==
    /\ pc \in {"done", "failed", "refused"}
    /\ lock_pc[Builder] = "idle"
    /\ pc' = "idle"
    /\ op' = NoOp
    /\ tx' = db
    /\ pre' = db
    /\ UNCHANGED <<lock_vars, view_vars, world, files, db, index_vars>>

\* another holder has the lock and keeps it; the store is empty or has the
\* graph of an earlier rebuild of the tree
InitGuarded ==
    /\ world = "root"
    /\ files = [fp \in WorldPaths(world) |->
                   [st |-> "ok", src |-> CHOOSE src \in Sources(world, fp) : TRUE]]
    /\ \/ db = EmptyStore
       \/ \E fl \in RebuildLists(world) : db = rebuild_entity_graph(EmptyStore, fl, files)
    /\ tx = db
    /\ pc = "idle"
    /\ op = NoOp
    /\ pre = db
    /\ lock_pc = [p \in Procs |-> IF p = Other THEN "held" ELSE "idle"]
    /\ lock_path = 1
    /\ lock_file = [p \in Procs |-> IF p = Other THEN 1 ELSE NoFile]
    /\ flocked = [i \in Inodes |-> IF i = 1 THEN Other ELSE NoProc]
    /\ aged = FALSE
    /\ seen = NoAnswer
    /\ NoIndex

NextGuarded ==
    \/ \E fp \in WorldPaths(world) : \E src \in Sources(world, fp) : WriteFile(fp, src)
    \/ \E fl \in RebuildLists(world) : LockForRebuild(fl)
    \/ \E changed \in SeqsUpTo(WorldPaths(world), MaxChanged) :
         \E deleted \in SeqsUpTo(WorldPaths(world), MaxDeleted) :
            LockForUpdate(changed, deleted)
    \/ Exists(Builder)
    \/ Stat(Builder)
    \/ UnlinkStale(Builder)
    \/ Open(Builder)
    \/ Flock(Builder)
    \/ WritePid(Builder)
    \/ Retry(Builder)
    \/ TimeOut(Builder)
    \/ EnterRaises
    \/ Enter
    \/ ClearRows
    \/ IndexFile
    \/ Resolve
    \/ Derive
    \/ Commit
    \/ Fail
    \/ ExitLock
    \/ Close(Builder)
    \/ Unlink(Builder)
    \/ ReturnToCaller
    \/ Tick

SpecGuarded == InitGuarded /\ [][NextGuarded]_vars

(***************************************************************************)
(* The queries.  A query opens a connection of its own and takes no        *)
(* FileLock; its SELECT reads the rows committed to the store file.  LIKE  *)
(* patterns are matched on the dotted names written out as strings.        *)
(***************************************************************************)
RECURSIVE dotted(_)
\* ".".join(segments)
dotted(n) ==
    IF n = <<>> THEN ""
    ELSE IF Len(n) = 1 THEN n[1]
    ELSE n[1] \o "." \o dotted(Tail(n))

\* s LIKE '%' || t || '%'
str_contains(s, t) ==
    \E i \in 1..(Len(s) - Len(t) + 1) : SubSeq(s, i, i + Len(t) - 1) = t

\* s LIKE '%' || t
str_ends_with(s, t) ==
    Len(s) >= Len(t) /\ SubSeq(s, Len(s) - Len(t) + 1, Len(s)) = t

\* limit: int = 20
DefaultLimit == 20

\* the limits a caller passes
Limits == {1, DefaultLimit}

\* the symbols a caller asks for
Symbols == {<<"foo">>, <<"pkg", "foo">>}

\* the order of rows with equal ORDER BY terms, which SQLite leaves open:
\* by rowid upwards or downwards
TieOrders == {1, -1}

\* the row a LEFT JOIN on an entity id yields: the entity, or all NULL
joined(E, id) == {e \in E : e.id = id}

\* the WHERE clause of find_callers: the call rows that match the query
callers_match(E, r, query) ==
    LET dst_name == dotted(lower_name(r.dst_name))
        dst == joined(E, r.dst_entity_id)
        dst_plain == IF dst = {} THEN ""
                     ELSE dotted(lower_name((CHOOSE e \in dst : TRUE).name))
        dst_qualname == IF dst = {} THEN ""
                        ELSE dotted(lower_name((CHOOSE e \in dst : TRUE).qualname))
    IN  /\ r.relation = "calls"
        /\ \/ dst_name = query
           \/ str_ends_with(dst_name, "." \o query)
           \/ str_contains(dst_name, query)
           \/ dst_plain = query
           \/ dst_qualname = query
           \/ str_ends_with(dst_qualname, "." \o query)
           \/ str_contains(dst_plain, query)

\* the row find_callers returns for a relation row
caller_row(E, r) ==
    LET src == joined(E, r.src_entity_id)
        dst == joined(E, r.dst_entity_id)
    IN  [file_path |-> r.file_path,
         caller |-> IF src = {} THEN r.src_qualname ELSE (CHOOSE e \in src : TRUE).qualname,
         callee |-> IF dst = {} THEN r.dst_name ELSE (CHOOSE e \in dst : TRUE).qualname,
         line |-> r.line,
         caller_kind |-> IF src = {} THEN "unknown" ELSE (CHOOSE e \in src : TRUE).kind,
         resolved |-> r.resolved = 1,
         confidence |-> r.confidence]

\* ORDER BY r.resolved DESC, r.confidence DESC, r.file_path ASC, r.line ASC
\* LIMIT ?: the positions of the chosen rows in the order they are returned
by_rank_limited(R, hits, limit, tie) ==
    LET keyed == {[i |-> i,
                   k |-> <<1 - R[i].resolved, 1000 - R[i].confidence,
                           path_rank(R[i].file_path), R[i].line, tie * i>>] : i \in hits}
        ordered == in_key_order(keyed)
        n == IF limit < 0 THEN Len(ordered) ELSE Min({limit, Len(ordered)})
    IN  [j \in 1..n |-> ordered[j].i]

\* a find_callers that ignores resolved_only
find_callers_unfiltered(store, symbol, limit, resolved_only, tie) ==
    LET query == dotted(lower_name(symbol))
        R == store.relations
        hits == {i \in 1..Len(R) : callers_match(store.entities, R[i], query)}
        chosen == by_rank_limited(R, hits, limit, tie)
    IN  [j \in 1..Len(chosen) |-> caller_row(store.entities, R[chosen[j]])]

\* find_callers on the committed rows
find_callers(store, symbol, limit, resolved_only, tie) ==
    LET query == dotted(lower_name(symbol))
        R == store.relations
        hits == {i \in 1..Len(R) : /\ callers_match(store.entities, R[i], query)
                                   /\ resolved_only => R[i].resolved = 1}
        chosen == by_rank_limited(R, hits, limit, tie)
    IN  IF query = ""
        THEN <<>>
        ELSE [j \in 1..Len(chosen) |-> caller_row(store.entities, R[chosen[j]])]

\* a store file that is not there
MissingStore == [EmptyStore EXCEPT !.exists = FALSE, !.columns = {}]

\* a store file of no bytes: it has no table
BlankStore == [EmptyStore EXCEPT !.columns = {}]

\* CREATE TABLE IF NOT EXISTS entities / relations
create_tables(store) ==
    IF table_columns(store) = {}
    THEN [store EXCEPT !.columns = BaseColumns \cup LinkColumns]
    ELSE store

\* a migration that adds the columns and links nothing
migrate_rows_skipped(store) == store

\* if added_link_columns: _resolve_relations(conn); _derive_rich_relations(conn)
migrate_rows(store) == link_pass(store)

\* _ensure_schema from its first statement to its commit
ensure_schema(store) ==
    LET created == create_tables(store)
        widened == ensure_columns(created)
    IN  IF added_link_columns(created, widened) THEN migrate_rows(widened) ELSE widened

\* _connect(): sqlite3.connect makes the file if it is not there, and
\* _ensure_schema runs on it
connect(store) == ensure_schema([store EXCEPT !.exists = TRUE])

\* the store file after a query: a query returns at once if the file is not
\* there (if not db_path.exists(): return []) and calls _connect() otherwise
queried(store) == IF store.exists THEN connect(store) ELSE store

\* a connection that reads the rows another connection has not committed
visible_rows_uncommitted(committed, working) == working

\* the rows the SELECT of a query reads: the query has a connection of its
\* own (with _connect() as conn), which sees the rows of the last commit and
\* none of the open transaction of the connection that is writing
visible_rows(committed, working) == committed

\* a caller runs find_callers, at any moment of a rebuild or update
FindCallers(symbol, limit, resolved_only, tie) ==
    \E store \in {queried(db)} :
      /\ seen' = [fn |-> "find_callers", symbol |-> symbol, limit |-> limit,
                      resolved_only |-> resolved_only,
                      rows |-> find_callers(visible_rows(store, tx), symbol, limit,
                                            resolved_only, tie)]
      /\ db' = store
      /\ tx' = IF tx = db THEN store ELSE tx
      /\ UNCHANGED <<world, files, pc, op, pre, lock_vars, index_vars>>

\* the WHERE clause of find_callees: the call rows whose caller matches
callees_match(E, r, query) ==
    LET src_qualname == dotted(lower_name(r.src_qualname))
        src == joined(E, r.src_entity_id)
        src_plain == IF src = {} THEN ""
                     ELSE dotted(lower_name((CHOOSE e \in src : TRUE).name))
        src_joined == IF src = {} THEN ""
                      ELSE dotted(lower_name((CHOOSE e \in src : TRUE).qualname))
    IN  /\ r.relation = "calls"
        /\ \/ src_qualname = query
           \/ str_ends_with(src_qualname, "." \o query)
           \/ src_plain = query
           \/ src_joined = query
           \/ str_ends_with(src_joined, "." \o query)
           \/ str_contains(src_plain, query)

\* the row find_callees returns for a relation row
callee_row(E, r) ==
    LET src == joined(E, r.src_entity_id)
        dst == joined(E, r.dst_entity_id)
    IN  [file_path |-> r.file_path,
         caller |-> IF src = {} THEN r.src_qualname ELSE (CHOOSE e \in src : TRUE).qualname,
         callee |-> IF dst = {} THEN r.dst_name ELSE (CHOOSE e \in dst : TRUE).qualname,
         line |-> r.line,
         callee_kind |-> IF dst = {} THEN "unknown" ELSE (CHOOSE e \in dst : TRUE).kind,
         resolved |-> r.resolved = 1,
         confidence |-> r.confidence]

\* find_callees on the committed rows
find_callees(store, symbol, limit, resolved_only, tie) ==
    LET query == dotted(lower_name(symbol))
        R == store.relations
        hits == {i \in 1..Len(R) : /\ callees_match(store.entities, R[i], query)
                                   /\ resolved_only => R[i].resolved = 1}
        chosen == by_rank_limited(R, hits, limit, tie)
    IN  IF query = ""
        THEN <<>>
        ELSE [j \in 1..Len(chosen) |-> callee_row(store.entities, R[chosen[j]])]

\* the WHERE clause of find_subclasses: the inherits rows whose base matches
subclasses_match(E, r, query) ==
    LET dst_name == dotted(lower_name(r.dst_name))
        dst == joined(E, r.dst_entity_id)
        dst_plain == IF dst = {} THEN ""
                     ELSE dotted(lower_name((CHOOSE e \in dst : TRUE).name))
        dst_qualname == IF dst = {} THEN ""
                        ELSE dotted(lower_name((CHOOSE e \in dst : TRUE).qualname))
    IN  /\ r.relation = "inherits"
        /\ \/ dst_name = query
           \/ str_ends_with(dst_name, "." \o query)
           \/ str_contains(dst_name, query)
           \/ dst_plain = query
           \/ dst_qualname = query
           \/ str_ends_with(dst_qualname, "." \o query)
           \/ str_contains(dst_plain, query)

\* the row find_subclasses returns for a relation row
subclass_row(E, r) ==
    LET src == joined(E, r.src_entity_id)
        dst == joined(E, r.dst_entity_id)
    IN  [file_path |-> r.file_path,
         subclass |-> IF src = {} THEN r.src_qualname ELSE (CHOOSE e \in src : TRUE).qualname,
         base_class |-> IF dst = {} THEN r.dst_name ELSE (CHOOSE e \in dst : TRUE).qualname,
         line |-> r.line,
         resolved |-> r.resolved = 1,
         confidence |-> r.confidence]

\* find_subclasses on the committed rows
find_subclasses(store, symbol, limit, resolved_only, tie) ==
    LET query == dotted(lower_name(symbol))
        R == store.relations
        hits == {i \in 1..Len(R) : /\ subclasses_match(store.entities, R[i], query)
                                   /\ resolved_only => R[i].resolved = 1}
        chosen == by_rank_limited(R, hits, limit, tie)
    IN  IF query = ""
        THEN <<>>
        ELSE [j \in 1..Len(chosen) |-> subclass_row(store.entities, R[chosen[j]])]

\* a caller runs find_callees, at any moment of a rebuild or update
FindCallees(symbol, limit, resolved_only, tie) ==
    \E store \in {queried(db)} :
      /\ seen' = [fn |-> "find_callees", symbol |-> symbol, limit |-> limit,
                      resolved_only |-> resolved_only,
                      rows |-> find_callees(visible_rows(store, tx), symbol, limit,
                                            resolved_only, tie)]
      /\ db' = store
      /\ tx' = IF tx = db THEN store ELSE tx
      /\ UNCHANGED <<world, files, pc, op, pre, lock_vars, index_vars>>

\* a caller runs find_subclasses, at any moment of a rebuild or update
FindSubclasses(symbol, limit, resolved_only, tie) ==
    \E store \in {queried(db)} :
      /\ seen' = [fn |-> "find_subclasses", symbol |-> symbol, limit |-> limit,
                      resolved_only |-> resolved_only,
                      rows |-> find_subclasses(visible_rows(store, tx), symbol, limit,
                                               resolved_only, tie)]
      /\ db' = store
      /\ tx' = IF tx = db THEN store ELSE tx
      /\ UNCHANGED <<world, files, pc, op, pre, lock_vars, index_vars>>

InitQuery == Init /\ world = "imports"

NextQuery ==
    \/ \E fp \in WorldPaths(world) : \E src \in Sources(world, fp) : WriteFile(fp, src)
    \/ \E fl \in RebuildLists(world) : BeginRebuild(fl)
    \/ ClearRows
    \/ IndexFile
    \/ Resolve
    \/ Derive
    \/ Commit
    \/ Return
    \/ \E symbol \in Symbols : \E limit \in Limits : \E resolved_only \in BOOLEAN :
          \E tie \in TieOrders : FindCallers(symbol, limit, resolved_only, tie)

SpecQuery == InitQuery /\ [][NextQuery]_vars

RECURSIVE like(_, _)
\* s LIKE pattern, both in lower case: % stands for any run of characters
\* and _ for any one character
like(s, pattern) ==
    IF pattern = ""
    THEN s = ""
    ELSE IF SubSeq(pattern, 1, 1) = "%"
    THEN \/ like(s, SubSeq(pattern, 2, Len(pattern)))
         \/ s # "" /\ like(SubSeq(s, 2, Len(s)), pattern)
    ELSE /\ s # ""
         /\ SubSeq(pattern, 1, 1) \in {"_", SubSeq(s, 1, 1)}
         /\ like(SubSeq(s, 2, Len(s)), SubSeq(pattern, 2, Len(pattern)))

\* str.startswith
str_starts_with(s, t) == Len(s) >= Len(t) /\ SubSeq(s, 1, Len(t)) = t

RECURSIVE str_strip(_)
\* str.strip() on a text with blanks around it
str_strip(s) ==
    IF s = "" THEN s
    ELSE IF SubSeq(s, 1, 1) = " " THEN str_strip(SubSeq(s, 2, Len(s)))
    ELSE IF SubSeq(s, Len(s), Len(s)) = " " THEN str_strip(SubSeq(s, 1, Len(s) - 1))
    ELSE s

RECURSIVE str_lower(_)
\* str.lower() on a text, over the capitals that occur in the names
str_lower(s) ==
    IF s = "" THEN s
    ELSE (CASE SubSeq(s, 1, 1) = "F" -> "f"
            [] SubSeq(s, 1, 1) = "R" -> "r"
            [] SubSeq(s, 1, 1) = "S" -> "s"
            [] OTHER -> SubSeq(s, 1, 1)) \o str_lower(SubSeq(s, 2, Len(s)))

\* limit: int = 10
DefaultEntityLimit == 10

\* the WHERE clause of find_entities
entities_match(e, query, kind) ==
    LET name == dotted(lower_name(e.name))
        qualname == dotted(lower_name(e.qualname))
    IN  /\ \/ name = query
           \/ qualname = query
           \/ like(name, "%" \o query \o "%")
           \/ like(qualname, "%" \o query \o "%")
        /\ kind # "" => e.kind = kind

\* the CASE of the ORDER BY of find_entities
entity_rank(e, query) ==
    CASE dotted(lower_name(e.name)) = query -> 0
      [] dotted(lower_name(e.qualname)) = query -> 1
      [] like(dotted(lower_name(e.name)), query \o "%") -> 2
      [] OTHER -> 3

\* the score find_entities gives a row it has read, in thousandths
entity_score(e, query) ==
    CASE dotted(lower_name(e.name)) = query -> 1000
      [] dotted(lower_name(e.qualname)) = query -> 950
      [] str_starts_with(dotted(lower_name(e.name)), query) -> 800
      [] OTHER -> 650

\* the row find_entities returns for an entity row
entity_row(e, query) ==
    [file_path |-> e.file_path, name |-> e.name, qualname |-> e.qualname,
     kind |-> e.kind, line |-> e.line, score |-> entity_score(e, query)]

\* find_entities on the committed rows; rows with equal ORDER BY terms come
\* by rowid upwards or downwards
find_entities(store, symbol, kind, limit, tie) ==
    LET query == str_lower(str_strip(symbol))
        hits == {e \in store.entities : entities_match(e, query, kind)}
        keyed == {[e |-> e, k |-> <<entity_rank(e, query)>> \o name_key(e.qualname)
                                     \o <<tie * e.id>>] : e \in hits}
        ordered == in_key_order(keyed)
        n == IF limit < 0 THEN Len(ordered) ELSE Min({limit, Len(ordered)})
    IN  IF query = ""
        THEN <<>>
        ELSE [j \in 1..n |-> entity_row(ordered[j].e, query)]

\* a caller runs find_entities (read: the entity rows its SELECT had before it)
FindEntities(symbol, kind, limit, tie) ==
    \E store \in {queried(db)} :
      /\ seen' = [fn |-> "find_entities", symbol |-> symbol, kind |-> kind,
                      limit |-> limit, read |-> visible_rows(store, tx).entities,
                      rows |-> find_entities(visible_rows(store, tx), symbol, kind, limit, tie)]
      /\ db' = store
      /\ tx' = IF tx = db THEN store ELSE tx
      /\ UNCHANGED <<world, files, pc, op, pre, lock_vars, index_vars>>

\* what a find_entities is asked for
EntitySymbols == {"run", " c.Foo ", "s", "r_n", ""}

EntityKinds == {"", "method"}

InitEntities == Init /\ world = "family"

NextEntities ==
    \/ \E fp \in WorldPaths(world) : \E src \in Sources(world, fp) : WriteFile(fp, src)
    \/ \E fl \in RebuildLists(world) : BeginRebuild(fl)
    \/ ClearRows
    \/ IndexFile
    \/ Resolve
    \/ Derive
    \/ Commit
    \/ Return
    \/ \E symbol \in EntitySymbols : \E kind \in EntityKinds :
          \E limit \in {1, DefaultEntityLimit} : \E tie \in TieOrders :
              FindEntities(symbol, kind, limit, tie)

SpecEntities == InitEntities /\ [][NextEntities]_vars

\* the callers a find_callees is asked about
CallerSymbols == {<<"login">>, <<"run">>}

\* the classes a find_subclasses is asked about
BaseSymbols == {<<"Foo">>}

\* queries beside rebuilds and incremental updates
\* the three relation queries, with every limit, filter and tie order, over
\* the graphs of two source trees
InitRanked == Init /\ world \in {"imports", "family"}

NextRanked ==
    \/ \E fp \in WorldPaths(world) : \E src \in Sources(world, fp) : WriteFile(fp, src)
    \/ \E fl \in RebuildLists(world) : BeginRebuild(fl)
    \/ ClearRows
    \/ IndexFile
    \/ Resolve
    \/ Derive
    \/ Commit
    \/ Return
    \/ \E symbol \in Symbols : \E limit \in Limits : \E resolved_only \in BOOLEAN :
          \E tie \in TieOrders : FindCallers(symbol, limit, resolved_only, tie)
    \/ \E symbol \in CallerSymbols : \E limit \in Limits : \E resolved_only \in BOOLEAN :
          \E tie \in TieOrders : FindCallees(symbol, limit, resolved_only, tie)
    \/ \E symbol \in BaseSymbols : \E limit \in Limits : \E resolved_only \in BOOLEAN :
          \E tie \in TieOrders : FindSubclasses(symbol, limit, resolved_only, tie)

SpecRanked == InitRanked /\ [][NextRanked]_vars

\* One file of a class whose methods call members through a receiver name.
InitMembers ==
    /\ world = "members"
    /\ files = [fp \in WorldPaths(world) |->
                   IF fp = Notes_txt THEN [st |-> "ok", src |-> SrcNoDefs] ELSE MissingFile]
    /\ db = EmptyStore
    /\ tx = EmptyStore
    /\ pc = "idle"
    /\ op = NoOp
    /\ pre = EmptyStore
    /\ LockIdle
    /\ seen = NoAnswer
    /\ NoIndex

NextMembers ==
    \/ \E fp \in WorldPaths(world) : \E src \in Sources(world, fp) : WriteFile(fp, src)
    \/ \E fl \in RebuildLists(world) : BeginRebuild(fl)
    \/ \E changed \in SeqsUpTo(WorldPaths(world), MaxChanged) : BeginUpdate(changed, <<>>)
    \/ ClearRows
    \/ IndexFile
    \/ Resolve
    \/ Derive
    \/ Commit
    \/ Return

SpecMembers == InitMembers /\ [][NextMembers]_vars

InitView == Init /\ world = "family"

NextView ==
    \/ \E fp \in WorldPaths(world) : \E src \in Sources(world, fp) : WriteFile(fp, src)
    \/ \E fl \in RebuildLists(world) : BeginRebuild(fl)
    \/ \E changed \in SeqsUpTo(WorldPaths(world), MaxChanged) :
         \E deleted \in SeqsUpTo(WorldPaths(world), MaxDeleted) :
            BeginUpdate(changed, deleted)
    \/ ClearRows
    \/ IndexFile
    \/ Resolve
    \/ Derive
    \/ Commit
    \/ Fail
    \/ Return
    \/ \E symbol \in Symbols : \E resolved_only \in BOOLEAN :
          FindCallers(symbol, DefaultLimit, resolved_only, 1)
    \/ \E symbol \in CallerSymbols : \E resolved_only \in BOOLEAN :
          FindCallees(symbol, DefaultLimit, resolved_only, 1)
    \/ \E symbol \in BaseSymbols : \E resolved_only \in BOOLEAN :
          FindSubclasses(symbol, DefaultLimit, resolved_only, 1)

SpecView == InitView /\ [][NextView]_vars

(***************************************************************************)
(* Schema migration: a store written under an older schema is opened.      *)
(* ALTER TABLE is not part of a transaction of the connection: the added   *)
(* columns are in the file at once; the rows the migration links are       *)
(* written by the commit that ends _ensure_schema.                         *)
(***************************************************************************)
\* the relations table as a version without the columns wrote it
without_columns(store, missing) ==
    [store EXCEPT
        !.columns = @ \ missing,
        !.relations = [i \in 1..Len(store.relations) |->
                         [c \in (DOMAIN store.relations[i]) \ missing |->
                             store.relations[i][c]]]]

\* _connect(db_path): sqlite3.connect, then _ensure_schema begins
OpenStore ==
    /\ pc = "idle"
    /\ pc' = "schema"
    /\ op' = [NoOp EXCEPT !.kind = "connect"]
    /\ tx' = db
    /\ pre' = db
    /\ UNCHANGED <<lock_vars, view_vars, world, files, db, index_vars>>

\* the four _ensure_column calls
AddColumns ==
    /\ pc = "schema"
    /\ db' = ensure_columns(db)
    /\ tx' = ensure_columns(db)
    /\ pc' = IF added_link_columns(db, ensure_columns(db)) THEN "migrate" ELSE "schema_commit"
    /\ UNCHANGED <<lock_vars, view_vars, world, files, op, pre, index_vars>>

\* the Resolver pass and the Deriver pass of the migration
MigrateRows ==
    /\ pc = "migrate"
    /\ tx' = migrate_rows(tx)
    /\ pc' = "schema_commit"
    /\ UNCHANGED <<lock_vars, view_vars, world, files, db, op, pre, index_vars>>

\* conn.commit() at the end of _ensure_schema: _connect returns the connection
SchemaCommit ==
    /\ pc = "schema_commit"
    /\ db' = commit(db, tx)
    /\ tx' = commit(db, tx)
    /\ pc' = "done"
    /\ UNCHANGED <<lock_vars, view_vars, world, files, op, pre, index_vars>>

\* sqlite3.Error or a killed process between the ALTER TABLE statements and
\* the commit
SchemaFails ==
    /\ pc \in {"migrate", "schema_commit"}
    /\ db' = rollback(db, tx)
    /\ tx' = rollback(db, tx)
    /\ pc' = "failed"
    /\ UNCHANGED <<lock_vars, view_vars, world, files, op, pre, index_vars>>

\* a source tree that was indexed under a schema without some link columns
InitMigrate ==
    /\ world \in Worlds
    /\ \E text \in [WorldPaths(world) ->
                        UNION {Sources(world, fp) : fp \in WorldPaths(world)}] :
          /\ \A fp \in WorldPaths(world) : text[fp] \in Sources(world, fp)
          /\ files = [fp \in WorldPaths(world) |-> [st |-> "ok", src |-> text[fp]]]
    /\ \E fl \in RebuildLists(world) : \E missing \in SUBSET LinkColumns :
          db = without_columns(index_files(EmptyStore, "rebuild", fl, files), missing)
    /\ tx = db
    /\ pc = "idle"
    /\ op = NoOp
    /\ pre = db
    /\ LockIdle
    /\ seen = NoAnswer
    /\ NoIndex

NextMigrate ==
    \/ OpenStore
    \/ AddColumns
    \/ MigrateRows
    \/ SchemaCommit
    \/ SchemaFails
    \/ Return

SpecMigrate == InitMigrate /\ [][NextMigrate]_vars

\* the four queries on a store file in each of its states: not there, of no
\* bytes, written under a schema without some link columns, and current
InitReadOnly ==
    /\ world = "family"
    /\ \E src \in Sources(world, C_py) :
          files = [fp \in WorldPaths(world) |->
                      [st |-> "ok", src |-> IF fp = C_py THEN src ELSE SrcNoDefs]]
    /\ \E fl \in RebuildLists(world) :
          \/ db = MissingStore
          \/ db = BlankStore
          \/ \E missing \in (SUBSET LinkColumns) \ {{}} :
                db = without_columns(index_files(EmptyStore, "rebuild", fl, files), missing)
          \/ db = rebuild_entity_graph(EmptyStore, fl, files)
    /\ tx = db
    /\ pc = "idle"
    /\ op = NoOp
    /\ pre = db
    /\ LockIdle
    /\ seen = NoAnswer
    /\ NoIndex

\* one of the four queries runs
QueryRuns ==
    \/ \E symbol \in {"run", " c.Foo "} : FindEntities(symbol, "", DefaultEntityLimit, 1)
    \/ \E symbol \in Symbols : \E resolved_only \in BOOLEAN :
          FindCallers(symbol, DefaultLimit, resolved_only, 1)
    \/ \E symbol \in CallerSymbols : \E resolved_only \in BOOLEAN :
          FindCallees(symbol, DefaultLimit, resolved_only, 1)
    \/ \E symbol \in BaseSymbols : \E resolved_only \in BOOLEAN :
          FindSubclasses(symbol, DefaultLimit, resolved_only, 1)

NextReadOnly ==
    \/ \E symbol \in {"run", " c.Foo "} : FindEntities(symbol, "", DefaultEntityLimit, 1)
    \/ \E symbol \in Symbols : \E resolved_only \in BOOLEAN :
          FindCallers(symbol, DefaultLimit, resolved_only, 1)
    \/ \E symbol \in CallerSymbols : \E resolved_only \in BOOLEAN :
          FindCallees(symbol, DefaultLimit, resolved_only, 1)
    \/ \E symbol \in BaseSymbols : \E resolved_only \in BOOLEAN :
          FindSubclasses(symbol, DefaultLimit, resolved_only, 1)

SpecReadOnly == InitReadOnly /\ [][NextReadOnly]_vars

(***************************************************************************)
(* The JavaScript extractor and its optional parser bridge.  One exchange  *)
(* with the node driver is what subprocess.run did and what it printed;    *)
(* the printed text is parsed by json.loads.  JSON values are records      *)
(* tagged with their Python type.                                          *)
(***************************************************************************)
JNull == [t |-> "NoneType"]

JBool(b) == [t |-> "bool", v |-> b]

JInt(n) == [t |-> "int", v |-> n]

JStr(x) == [t |-> "str", v |-> x]

JList(items) == [t |-> "list", v |-> items]

JDict(fields) == [t |-> "dict", v |-> fields]

\* the texts the driver is taken to print
DriverTexts ==
    {"", " ", "{oops", "null", "false", "true", "0", "1", "\"x\"", "[]", "[1]", "{}",
     "{\"ok\": false}", "{\"ok\": 1}", "{\"ok\": true}",
     "{\"ok\": true, \"entities\": 3, \"relations\": []}",
     "{\"ok\": true, \"entities\": [], \"relations\": []}",
     "{\"ok\": true, \"entities\": [\"e\"], \"relations\": [\"r\"]}"}

\* (completed.stdout or "").strip()
strip(text) == IF text = " " THEN "" ELSE text

NotJson == [t |-> "JSONDecodeError"]

\* json.loads on the texts of DriverTexts
json_loads(raw) ==
    CASE raw = "null" -> JNull
      [] raw = "false" -> JBool(FALSE)
      [] raw = "true" -> JBool(TRUE)
      [] raw = "0" -> JInt(0)
      [] raw = "1" -> JInt(1)
      [] raw = "\"x\"" -> JStr("x")
      [] raw = "[]" -> JList(<<>>)
      [] raw = "[1]" -> JList(<<JInt(1)>>)
      [] raw = "{}" -> JDict(<<>>)
      [] raw = "{\"ok\": false}" -> JDict([ok |-> JBool(FALSE)])
      [] raw = "{\"ok\": 1}" -> JDict([ok |-> JInt(1)])
      [] raw = "{\"ok\": true}" -> JDict([ok |-> JBool(TRUE)])
      [] raw = "{\"ok\": true, \"entities\": 3, \"relations\": []}" ->
            JDict([ok |-> JBool(TRUE), entities |-> JInt(3), relations |-> JList(<<>>)])
      [] raw = "{\"ok\": true, \"entities\": [], \"relations\": []}" ->
            JDict([ok |-> JBool(TRUE), entities |-> JList(<<>>), relations |-> JList(<<>>)])
      [] raw = "{\"ok\": true, \"entities\": [\"e\"], \"relations\": [\"r\"]}" ->
            JDict([ok |-> JBool(TRUE), entities |-> JList(<<JStr("e")>>),
                   relations |-> JList(<<JStr("r")>>)])
      [] OTHER -> NotJson

\* bool(value) of a parsed value
truthy(value) ==
    CASE value.t = "NoneType" -> FALSE
      [] value.t = "bool" -> value.v
      [] value.t = "int" -> value.v # 0
      [] value.t = "str" -> value.v # ""
      [] value.t = "list" -> value.v # <<>>
      [] value.t = "dict" -> DOMAIN value.v # {}

\* parsed.get(key, default) of a dict
dict_get(value, key, default) ==
    IF key \in DOMAIN value.v THEN value.v[key] ELSE default

\* what subprocess.run does: it returns, or raises OSError or TimeoutExpired
RunOutcomes == {"completed", "OSError", "TimeoutExpired"}

\* the exchanges with the driver: whether node was found, what run did, the
\* exit status and the printed text
\* (nothing is run without node, and nothing is printed by a run that raised)
Exchanges ==
    {x \in [node : BOOLEAN, run : RunOutcomes, returncode : {0, 1}, stdout : DriverTexts] :
        /\ ~x.node => x.run = "OSError"
        /\ x.run # "completed" => x.returncode = 1 /\ x.stdout = ""}

\* the directories the driver is tried in: the working directory, then
\* ~/.twin-mind when it exists
MaxDirs == 2

\* _run_oxc_driver: the parsed response, or None
run_oxc_driver(x) ==
    IF ~x.node \/ x.run # "completed" \/ x.returncode # 0 \/ strip(x.stdout) = ""
          \/ json_loads(strip(x.stdout)) = NotJson
    THEN JNull
    ELSE json_loads(strip(x.stdout))

Raised(exc) == [raised |-> exc]

RECURSIVE try_dirs(_)
\* for cwd in working_dirs: parsed = _run_oxc_driver(...);
\*     if parsed and parsed.get("ok"): break
\* the value of parsed after the loop, or the exception of parsed.get
try_dirs(xs) ==
    LET parsed == run_oxc_driver(Head(xs))
    IN  CASE ~truthy(parsed) -> IF Len(xs) = 1 THEN parsed ELSE try_dirs(Tail(xs))
          [] parsed.t # "dict" -> Raised("AttributeError")
          [] truthy(dict_get(parsed, "ok", JNull)) -> parsed
          [] OTHER -> IF Len(xs) = 1 THEN parsed ELSE try_dirs(Tail(xs))

\* extract_javascript_entities_with_oxc: the (entities, relations) pair of
\* the response, None, or the exception that leaves it
extract_javascript_entities_with_oxc(xs) ==
    LET parsed == try_dirs(xs)
    IN  CASE "raised" \in DOMAIN parsed -> parsed
          [] ~truthy(parsed) -> JNull
          [] ~truthy(dict_get(parsed, "ok", JNull)) -> JNull
          [] dict_get(parsed, "entities", JList(<<>>)).t # "list" -> JNull
          [] dict_get(parsed, "relations", JList(<<>>)).t # "list" -> JNull
          [] OTHER -> [entities |-> dict_get(parsed, "entities", JList(<<>>)).v,
                       relations |-> dict_get(parsed, "relations", JList(<<>>)).v]

\* the rows of the heuristic extractor, which reads the content only
HeuristicRows == [entities |-> <<JStr("heuristic")>>, relations |-> <<>>]

\* extract_javascript_entities
extract_javascript_entities(xs) ==
    LET extracted == extract_javascript_entities_with_oxc(xs)
    IN  IF extracted # JNull THEN extracted ELSE HeuristicRows

\* a JavaScript file is extracted, with the exchanges the bridge meets
ExtractJavascript(xs) ==
    /\ seen = NoAnswer
    /\ seen' = [fn |-> "extract_javascript_entities", exchanges |-> xs,
                bridge |-> extract_javascript_entities_with_oxc(xs),
                rows |-> extract_javascript_entities(xs)]
    /\ UNCHANGED <<store_vars, lock_vars, index_vars>>

NextBridge ==
    \E n \in 1..MaxDirs : \E xs \in [1..n -> Exchanges] : ExtractJavascript(xs)

SpecBridge == InitLock /\ [][NextBridge]_vars

(***************************************************************************)
(* cmd_index with entity extraction enabled.  The working tree is the tree *)
(* of HEAD: the developer commits every change.  A commit is named by its  *)
(* position in the history.                                                *)
(***************************************************************************)
\* the longest history
MaxCommits == 3

\* what cmd_index has printed: its last message, and whether the warning
\* "Entity extraction skipped" was ever printed
Console(said, skipped) == [fn |-> "cmd_index", said |-> said, skipped |-> skipped]

\* git rev-parse HEAD; None outside a repository with a commit
get_current_commit == IF commits = <<>> THEN NULL ELSE Len(commits)

\* git rev-list --count since..HEAD
get_commits_behind(since_commit) == Len(commits) - since_commit

\* git diff --name-only since HEAD, and the same with --diff-filter=D: the
\* paths come in byte order, and the deleted ones are in both lists
get_changed_files(since_commit) ==
    LET old == commits[since_commit]
        new == commits[Len(commits)]
        differs(fp) == fp \in WorldPaths(world) /\ old[fp] # new[fp]
        gone(fp) == differs(fp) /\ new[fp] = MissingFile
    IN  <<SelectSeq(PathsSorted, differs), SelectSeq(PathsSorted, gone)>>

\* the developer changes or deletes a file and commits
GitCommit(fp, file) ==
    /\ pc = "idle"
    /\ Len(commits) < MaxCommits
    /\ files[fp] # file
    /\ files' = [files EXCEPT ![fp] = file]
    /\ commits' = Append(commits, files')
    /\ UNCHANGED <<lock_vars, view_vars, world, db, tx, pc, op, pre, index_state>>

\* cmd_index up to the choice of the mode: a run with a recorded last_commit
\* and without --fresh returns when HEAD is that commit or nothing differs,
\* and is incremental otherwise; every other run is a full one over
\* collect_files(config)
IndexBegin(fresh, fl) ==
    /\ pc = "idle"
    /\ db.seq <= MaxSeq
    /\ LET last_commit == index_state.last_commit
           tries == ~fresh /\ last_commit # NULL
           behind == IF tries THEN get_commits_behind(last_commit) ELSE 0
           diff == IF tries /\ behind > 0 THEN get_changed_files(last_commit)
                   ELSE <<<<>>, <<>>>>
           incremental == tries /\ behind > 0 /\ (diff[1] # <<>> \/ diff[2] # <<>>)
       IN  IF tries /\ ~incremental
           THEN /\ seen' = Console("Index is up to date", seen.skipped)
                /\ UNCHANGED <<pc, op>>
           ELSE /\ pc' = "code"
                /\ op' = IF incremental
                         THEN [NoOp EXCEPT !.kind = "update", !.changed = diff[1],
                                           !.deleted = diff[2], !.todo = diff[1]]
                         ELSE [NoOp EXCEPT !.kind = "rebuild", !.files = fl, !.todo = fl]
                /\ seen' = seen
    /\ UNCHANGED <<lock_vars, world, files, db, tx, pre, index_vars>>

\* the code store is indexed under its own lock, then "Save state":
\* save_index_state(get_current_commit(), total_indexed)
SaveState ==
    /\ pc = "code"
    /\ index_state' = IF get_current_commit # NULL
                      THEN [last_commit |-> get_current_commit]
                      ELSE index_state
    /\ seen' = Console("Done!", seen.skipped)
    /\ pc' = "entities"
    /\ UNCHANGED <<lock_vars, world, files, db, tx, op, pre, commits>>

\* indexing the code store raises (its lock times out, the store is
\* damaged): the exception leaves cmd_index before "Save state"
IndexCodeRaises ==
    /\ pc = "code"
    /\ pc' = "idle"
    /\ op' = NoOp
    /\ seen' = Console("Traceback", seen.skipped)
    /\ UNCHANGED <<lock_vars, world, files, db, tx, pre, index_vars>>

\* update_entity_graph_incremental or rebuild_entity_graph is called and
\* gets the lock of the entity store
EntitiesBegin ==
    /\ pc = "entities"
    /\ pc' = "clear"
    /\ tx' = db
    /\ pre' = db
    /\ UNCHANGED <<lock_vars, view_vars, world, files, db, op, index_vars>>

\* "with FileLock(db_path)" raises OSError: another process kept the lock of
\* the entity store for the whole timeout
EntitiesLockTimeout ==
    /\ pc = "entities"
    /\ pc' = "failed"
    /\ UNCHANGED <<lock_vars, view_vars, world, files, db, tx, op, pre, index_vars>>

\* the entity step ends: the counts are printed, or "except Exception"
\* prints the warning; cmd_index returns
IndexReturn ==
    /\ pc \in {"done", "failed"}
    /\ seen' = IF pc = "done"
               THEN Console("Entities:", seen.skipped)
               ELSE Console("Entity extraction skipped", TRUE)
    /\ pc' = "idle"
    /\ op' = NoOp
    /\ tx' = db
    /\ pre' = db
    /\ UNCHANGED <<lock_vars, world, files, db, index_vars>>

\* a repository with one commit, never indexed
InitIndex ==
    /\ world = "family"
    /\ \E src \in Sources(world, C_py) :
          files = [fp \in WorldPaths(world) |->
                     [st |-> "ok", src |-> IF fp = C_py THEN src ELSE SrcNoDefs]]
    /\ commits = <<files>>
    /\ index_state = NoState
    /\ db = EmptyStore
    /\ tx = EmptyStore
    /\ pc = "idle"
    /\ op = NoOp
    /\ pre = EmptyStore
    /\ LockIdle
    /\ seen = Console("", FALSE)

NextIndex ==
    \/ \E src \in Sources(world, C_py) : GitCommit(C_py, [st |-> "ok", src |-> src])
    \/ GitCommit(C_py, MissingFile)
    \/ \E fresh \in BOOLEAN : \E fl \in RebuildLists(world) : IndexBegin(fresh, fl)
    \/ SaveState
    \/ IndexCodeRaises
    \/ EntitiesBegin
    \/ EntitiesLockTimeout
    \/ ClearRows
    \/ IndexFile
    \/ Resolve
    \/ Derive
    \/ Commit
    \/ Fail
    \/ IndexReturn

SpecIndex == InitIndex /\ [][NextIndex]_vars

(***************************************************************************)
(* _neutralize_js_content.  A text is the sequence of its characters.      *)
(***************************************************************************)
\* the longest text
MaxContent == 5

\* the character U+0060, which a string of this language cannot hold
Backtick == "backtick"

Quotes == {"'", "\"", Backtick}

\* the characters of the texts
Alphabet == Quotes \cup {"a", "/", "*", "\\", "\n"}

Contents == UNION {[1..n -> Alphabet] : n \in 0..MaxContent}

\* out[i] = ch
put(out, i, ch) == [out EXCEPT ![i] = ch]

\* a backslash in a string is never taken as an escape
escape_never(c, i, n) == FALSE

\* c == "\\" and i + 1 < n, with i counted from 1
escape_pair(c, i, n) == c = "\\" /\ i + 1 <= n

\* one round of the while loop
scan_step(chars, out, i, state, quote) ==
    LET n == Len(chars)
        c == chars[i]
        nxt == IF i + 1 <= n THEN chars[i + 1] ELSE ""
        go(o, j, st, q) == [out |-> o, i |-> j, state |-> st, quote |-> q]
    IN  CASE state = "code" ->
               IF c = "/" /\ nxt = "/"
               THEN go(put(put(out, i, " "), i + 1, " "), i + 2, "line_comment", quote)
               ELSE IF c = "/" /\ nxt = "*"
               THEN go(put(put(out, i, " "), i + 1, " "), i + 2, "block_comment", quote)
               ELSE IF c \in Quotes
               THEN go(put(out, i, " "), i + 1, "string", c)
               ELSE go(out, i + 1, state, quote)
          [] state = "line_comment" ->
               IF c = "\n"
               THEN go(out, i + 1, "code", quote)
               ELSE go(put(out, i, " "), i + 1, state, quote)
          [] state = "block_comment" ->
               IF c = "*" /\ nxt = "/"
               THEN go(put(put(out, i, " "), i + 1, " "), i + 2, "code", quote)
               ELSE go(IF c # "\n" THEN put(out, i, " ") ELSE out, i + 1, state, quote)
          [] state = "string" ->
               IF escape_pair(c, i, n)
               THEN LET first == IF out[i] # "\n" THEN put(out, i, " ") ELSE out
                    IN  go(IF first[i + 1] # "\n" THEN put(first, i + 1, " ") ELSE first,
                           i + 2, state, quote)
               ELSE IF c = quote
               THEN go(put(out, i, " "), i + 1, "code", quote)
               ELSE go(IF c # "\n" THEN put(out, i, " ") ELSE out, i + 1, state, quote)

RECURSIVE scan(_, _)
\* while i < n
scan(chars, at) ==
    IF at.i > Len(chars)
    THEN at.out
    ELSE scan(chars, scan_step(chars, at.out, at.i, at.state, at.quote))

\* _neutralize_js_content(content)
neutralize_js_content(content) ==
    scan(content, [out |-> content, i |-> 1, state |-> "code", quote |-> ""])

\* a text is handed to _neutralize_js_content
InitNeutral ==
    /\ world = "family"
    /\ files = [fp \in WorldPaths(world) |-> MissingFile]
    /\ db = EmptyStore
    /\ tx = EmptyStore
    /\ pc = "idle"
    /\ op = NoOp
    /\ pre = EmptyStore
    /\ LockIdle
    /\ \E content \in Contents : seen = [fn |-> "content", content |-> content]
    /\ NoIndex

\* the call returns the neutralized copy
Neutralize ==
    /\ seen.fn = "content"
    /\ seen' = [fn |-> "_neutralize_js_content", content |-> seen.content,
                out |-> neutralize_js_content(seen.content)]
    /\ UNCHANGED <<store_vars, lock_vars, index_vars>>

NextNeutral == Neutralize

SpecNeutral == InitNeutral /\ [][NextNeutral]_vars

(***************************************************************************)
(* The properties.                                                         *)
(***************************************************************************)
\* no two entity rows of a store share (file_path, qualname, kind), no two
\* relation rows share (file_path, src_qualname, dst_name, relation, line)
UniqueKeys(store) ==
    /\ \A a, b \in store.entities : entity_key(a) = entity_key(b) => a = b
    /\ \A i, j \in 1..Len(store.relations) :
           relation_key(store.relations[i]) = relation_key(store.relations[j]) => i = j

\* C1: after any sequence of rebuilds and incremental updates, and at every
\* statement inside one, no two entity rows share (file_path, qualname, kind)
\* and no two relation rows share (file_path, src_qualname, dst_name,
\* relation, line), the derived instantiates and overrides rows included.
C1_UniqueKeys == UniqueKeys(db) /\ UniqueKeys(tx)

\* a committed store with a derived row, built from a file whose
\* extraction repeats an entity key and a relation key
C1_Witness ==
    /\ pc = "done"
    /\ \E fp \in DOMAIN files :
           /\ files[fp].st = "ok"
           /\ LET rows == extract_entities(fp, files[fp].src)
              IN  /\ \E i, j \in 1..Len(rows.relations) :
                         i # j /\ relation_key(rows.relations[i]) = relation_key(rows.relations[j])
                  /\ \E i, j \in 1..Len(rows.entities) :
                         i # j /\ entity_key(rows.entities[i]) = entity_key(rows.entities[j])
           /\ \E r \in Range(db.relations) : r.file_path = fp /\ r.relation = "instantiates"

\* the processes whose acquire has returned True and whose release has not begun
holders == {p \in Procs : lock_pc[p] = "held"}

\* C2: FileLock is mutually exclusive: for one protected path at most one
\* FileLock is held at any time, for every interleaving of the steps of
\* acquire and release and however long the holder keeps the lock.
C2_MutualExclusion == Cardinality(holders) <= 1

\* a second process is inside acquire while the lock is held
C2_Witness ==
    \E p, q \in Procs :
        /\ p # q
        /\ lock_pc[p] = "held"
        /\ lock_pc[q] \in {"exists", "stat", "unlink", "open", "flock", "sleep"}

\* the store the running operation leaves when it runs to its commit
complete_graph ==
    IF op.kind = "rebuild"
    THEN rebuild_entity_graph(pre, op.files, files)
    ELSE update_entity_graph_incremental(pre, op.changed, op.deleted, files)

DerivedKinds == {"instantiates", "overrides"}

\* the entity ids of a store
entity_ids(store) == {e.id : e \in store.entities}

\* the paths an incremental update clears
touched_paths == Range(op.changed) \cup Range(op.deleted)

\* C4: after every completed rebuild or incremental update no relation has a
\* src_entity_id or dst_entity_id that refers to an entity row that does not
\* exist, and every extracted relation, of touched and untouched files
\* alike, carries the link columns the Resolver computes against the entity
\* set as it is after the operation.
C4_ResolvedAgainstFinalEntities ==
    pc = "done" =>
        \A r \in Range(db.relations) :
            /\ r.src_entity_id \in entity_ids(db) \cup {NULL}
            /\ r.dst_entity_id \in entity_ids(db) \cup {NULL}
            /\ r.relation \notin DerivedKinds
                   => r = resolve_row(r, lowered(db.entities), db.relations)

\* an update is complete, and a relation of a file outside the change set
\* pointed, before the update, at an entity the update removed
C4_Witness ==
    /\ pc = "done"
    /\ op.kind = "update"
    /\ \E r \in Range(db.relations) : \E o \in Range(pre.relations) :
           /\ r.file_path \notin touched_paths
           /\ relation_key(o) = relation_key(r)
           /\ o.dst_entity_id # NULL
           /\ o.dst_entity_id \notin entity_ids(db)

\* the columns an extractor gives an entity row
entity_columns(e) ==
    [file_path |-> e.file_path, name |-> e.name, qualname |-> e.qualname,
     kind |-> e.kind, line |-> e.line]

\* the columns an extractor gives a relation row
relation_columns(r) ==
    [file_path |-> r.file_path, src_qualname |-> r.src_qualname,
     dst_name |-> r.dst_name, relation |-> r.relation, line |-> r.line]

\* what the extractor returns for the current content of a touched path;
\* nothing for a path the update does not index: one that is not in changed,
\* or whose file is missing, unsupported, unreadable or over the size ceiling
extracted_now(fp) ==
    IF fp \notin Range(op.changed) \/ skips("update", fp, file_at(files, fp))
    THEN NoRows
    ELSE extract_entities(fp, file_at(files, fp).src)

\* the extracted entity rows that INSERT OR IGNORE keeps: the first of every
\* (file_path, qualname, kind)
first_of_key(rows) ==
    {entity_columns(rows[i]) : i \in {j \in 1..Len(rows) :
        \A k \in 1..(j - 1) : entity_key(rows[k]) # entity_key(rows[j])}}

\* C5 as stated: for every touched path the rows of the store under
\* that path are exactly the rows extracted from the file's current content
C5_ExactlyTheExtractedRows ==
    (pc = "done" /\ op.kind = "update") =>
        \A fp \in touched_paths :
            /\ {entity_columns(e) : e \in {o \in db.entities : o.file_path = fp}}
                   = {entity_columns(e) : e \in Range(extracted_now(fp).entities)}
            /\ {relation_columns(r) : r \in {o \in Range(db.relations) : o.file_path = fp}}
                   = {relation_columns(r) : r \in Range(extracted_now(fp).relations)}

\* C5 (amended): after update_entity_graph_incremental(changed, deleted),
\* for every path in changed or deleted: the entity rows under the path were
\* all inserted by this update and are the extracted entity rows of the
\* file's current content, the first of every (file_path, qualname, kind);
\* the relation rows under the path other than instantiates and overrides
\* are the extracted relation rows; the instantiates and overrides rows
\* under it start at an entity of the path.  The path has no rows if it is
\* not in changed or the file is missing, of an unsupported extension,
\* unreadable or larger than the size ceiling.  When service.py renames foo
\* to bar and api.py calls bar in the same change set, no entity foo is left,
\* service.bar exists and the call resolves to it.
C5_TouchedPathsReplaced ==
    (pc = "done" /\ op.kind = "update") =>
        /\ \A fp \in touched_paths :
            LET now == extracted_now(fp)
                ents == {o \in db.entities : o.file_path = fp}
                rels == {o \in Range(db.relations) : o.file_path = fp}
            IN  /\ \A e \in ents : e.id > pre.seq
                /\ {entity_columns(e) : e \in ents} = first_of_key(now.entities)
                /\ {relation_columns(r) : r \in {o \in rels : o.relation \notin DerivedKinds}}
                       = {relation_columns(r) : r \in Range(now.relations)}
                /\ \A r \in {o \in rels : o.relation \in DerivedKinds} :
                       \E e \in ents : e.id = r.src_entity_id
        /\ ( /\ {Service_py, Api_py} \subseteq Range(op.changed)
             /\ file_at(files, Service_py) = [st |-> "ok", src |-> SrcServiceBar]
             /\ file_at(files, Api_py) = [st |-> "ok", src |-> SrcApiBar] )
           => /\ \A e \in db.entities : e.name # <<"foo">>
              /\ \E e \in db.entities :
                    /\ e.qualname = <<"service", "bar">>
                    /\ \E r \in Range(db.relations) :
                          /\ r.relation = "calls"
                          /\ r.src_qualname = <<"api", "login">>
                          /\ r.resolved = 1
                          /\ r.dst_entity_id = e.id

\* the rename of foo to bar, with its caller, has been applied to a graph
\* that held foo
C5_Witness ==
    /\ pc = "done"
    /\ op.kind = "update"
    /\ {Service_py, Api_py} \subseteq Range(op.changed)
    /\ file_at(files, Service_py) = [st |-> "ok", src |-> SrcServiceBar]
    /\ file_at(files, Api_py) = [st |-> "ok", src |-> SrcApiBar]
    /\ \E e \in pre.entities : e.qualname = <<"service", "foo">>
    /\ \E r \in Range(pre.relations) : r.dst_name = <<"foo">> /\ r.resolved = 1

\* C6: for every relation row of the committed graph, extracted or derived,
\* resolved = 1 if and only if both src_entity_id and dst_entity_id are
\* non-null.
C6_ResolvedIffBothIds ==
    \A r \in Range(db.relations) :
        r.resolved = 1 <=> (r.src_entity_id # NULL /\ r.dst_entity_id # NULL)

\* a committed graph with a resolved extracted row, an unresolved extracted
\* row and a derived row
C6_Witness ==
    /\ pc = "done"
    /\ \E r \in Range(db.relations) : r.relation \notin DerivedKinds /\ r.resolved = 1
    /\ \E r \in Range(db.relations) : r.relation \notin DerivedKinds /\ r.resolved = 0
    /\ \E r \in Range(db.relations) : r.relation \in DerivedKinds

\* the rows of the committed graph that an extractor produced
extracted_relations == {r \in Range(db.relations) : r.relation \notin DerivedKinds}

\* the offers of the resolution steps for a row of the committed graph
offers_for(r) ==
    resolution_offers(lower(r.relation), r.file_path, r.src_qualname, r.dst_name,
                      r.src_entity_id, lowered(db.entities), db.relations)

\* C7 as stated: a relation whose dst_name is the qualname of an
\* entity and whose source scope is an entity is resolved to an entity of
\* that qualname with confidence 1.0, whatever else is in the graph
C7_DirectMatchAlwaysResolves ==
    \A r \in extracted_relations :
        ( /\ \E e \in db.entities : e.qualname = r.dst_name
          /\ \E e \in db.entities : e.qualname = r.src_qualname )
        => /\ r.resolved = 1
           /\ r.confidence = ConfDirect
           /\ \E e \in db.entities : e.id = r.dst_entity_id /\ e.qualname = r.dst_name

\* C7 (amended): a relation whose dst_name equals, ignoring case, the
\* qualname of an entity and whose source scope is an entity is resolved with
\* confidence exactly 1.0 to the entity of that qualname with the highest id
\* if it is a defines relation or no resolution step offers another entity
\* with a score above 0.85; otherwise it is stored unresolved with a null
\* destination and confidence 0.0.
C7_DirectMatchUnlessRival ==
    \A r \in extracted_relations :
        LET same == {e.id : e \in {o \in db.entities :
                        lower_name(o.qualname) = lower_name(r.dst_name)}}
            rivals == {o \in offers_for(r) : o[1] # Max(same) /\ o[2] > 850}
        IN  (same # {} /\ \E e \in db.entities : e.qualname = r.src_qualname)
            => IF r.relation = "defines" \/ rivals = {}
               THEN r.resolved = 1 /\ r.dst_entity_id = Max(same)
                    /\ r.confidence = ConfDirect
               ELSE r.resolved = 0 /\ r.dst_entity_id = NULL /\ r.confidence = 0

\* a committed graph in which one call names an entity by its qualname and is
\* resolved to it although a second entity has that qualname, or is left
\* unresolved because a step offers a rival
C7_Witness ==
    /\ pc = "done"
    /\ \E r \in extracted_relations :
           /\ r.relation = "calls"
           /\ \E e \in db.entities : e.qualname = r.dst_name
           /\ \/ r.resolved = 0
              \/ Cardinality({e \in db.entities : e.qualname = r.dst_name}) > 1

\* the final pick by the stated rule, on scores in thousandths
stated_pick(candidates) ==
    LET ids == DOMAIN candidates
        top_score == Max({candidates[i] : i \in ids})
        top_id == CHOOSE i \in ids : candidates[i] = top_score
        second_score == Max({candidates[i] : i \in ids \ {top_id}})
    IN  IF ids = {} THEN <<NULL, 0>>
        ELSE IF Cardinality(ids) = 1 THEN <<top_id, top_score>>
        ELSE IF top_score - second_score >= 150 THEN <<top_id, top_score>>
        ELSE <<NULL, 0>>

\* C8: for every relation: with no candidate entity it is unresolved with
\* confidence 0.0; with exactly one it resolves to it with that candidate's
\* score; with two or more it resolves to the highest-scoring one only if
\* its score exceeds the second-highest by at least 0.15, and otherwise it is
\* stored unresolved with a null destination and confidence 0.0.  A
\* candidate's score is the maximum over the steps that produced it.
C8_FinalPick ==
    \A r \in extracted_relations :
        r.src_entity_id # NULL =>
            LET picked == stated_pick(candidates_of(offers_for(r)))
            IN  /\ r.dst_entity_id = picked[1]
                /\ r.confidence = round4(picked[2])
                /\ r.resolved = IF picked[1] # NULL THEN 1 ELSE 0

\* a committed relation with two candidate entities that score 0.95 and 0.80
C8_Witness ==
    /\ pc = "done"
    /\ \E r \in extracted_relations :
           LET c == candidates_of(offers_for(r))
           IN  /\ Cardinality(DOMAIN c) = 2
               /\ {c[i] : i \in DOMAIN c} = {950, 800}

\* C9: on a store whose entity and relation rows are not changed in between,
\* a second Resolver run gives every relation the same (resolved,
\* src_entity_id, dst_entity_id, confidence) as the first run gave it.
C9_ResolverDeterminism ==
    LET once == resolve_relations(tx.entities, tx.relations)
    IN  resolve_relations(tx.entities, once) = once

\* the Resolver has run over a store with an import row, and a relation it
\* resolved through a step other than the direct match
C9_Witness ==
    /\ pc = "derive"
    /\ \E r \in Range(tx.relations) : r.relation = "imports" /\ r.resolved = 1
    /\ \E r \in Range(tx.relations) : r.resolved = 1 /\ r.confidence < ConfDirect

\* the rows a store holds under a path are the rows the file's current
\* content extracts to
holds_current(store, fp) ==
    LET now == index_file_content(EmptyStore, fp, file_at(files, fp).src)
    IN  /\ ~skips("update", fp, file_at(files, fp))
        /\ {entity_columns(e) : e \in {o \in store.entities : o.file_path = fp}}
               = {entity_columns(e) : e \in now.entities}
        /\ {relation_key(r) : r \in {o \in Range(store.relations) :
                                        o.file_path = fp /\ o.relation \notin DerivedKinds}}
               = {relation_key(r) : r \in Range(now.relations)}

\* an incremental update has re-extracted files whose content did not change
unchanged_round_trip ==
    /\ pc = "done"
    /\ op.kind = "update"
    /\ op.changed # <<>>
    /\ op.deleted = <<>>
    /\ \A fp \in Range(op.changed) : holds_current(pre, fp)

\* C10: an incremental update that names a file whose content did not change
\* leaves the store with the same set of entity rows, compared on
\* (file_path, name, qualname, kind, line), and the same set of relation
\* rows, compared on (file_path, src_qualname, dst_name, relation, line).
C10_RoundTrip ==
    unchanged_round_trip =>
        /\ {entity_columns(e) : e \in db.entities}
               = {entity_columns(e) : e \in pre.entities}
        /\ {relation_key(r) : r \in Range(db.relations)}
               = {relation_key(r) : r \in Range(pre.relations)}

\* the round trip has been made on a graph in which two files define one
\* qualname
C10_Witness ==
    /\ unchanged_round_trip
    /\ \E a, b \in pre.entities : a.id # b.id /\ a.qualname = b.qualname

(***************************************************************************)
(* The module entity of a file.                                            *)
(***************************************************************************)
\* the files with at least one row in a store
paths_with_rows(store) ==
    {e.file_path : e \in store.entities} \cup {r.file_path : r \in Range(store.relations)}

module_entities_of(store, fp) ==
    {e \in store.entities : e.file_path = fp /\ e.kind = "module"}

\* the relative path with the extension removed, the separators turned
\* into dots and a trailing __init__ segment dropped
stated_module_qualname(fp) ==
    IF fp.parts # <<>> /\ fp.parts[Len(fp.parts)] = "__init__"
    THEN SubSeq(fp.parts, 1, Len(fp.parts) - 1)
    ELSE fp.parts

\* C11 as stated: in the committed store every file with at least one row has
\* exactly one entity of kind module, and its qualname is the file's relative
\* path with the extension removed, the separators turned into dots and a
\* trailing __init__ segment dropped.
C11_ModuleQualnameIsDottedPath ==
    \A fp \in paths_with_rows(db) :
        /\ Cardinality(module_entities_of(db, fp)) = 1
        /\ \A e \in module_entities_of(db, fp) : e.qualname = stated_module_qualname(fp)

\* C11, amended: in the committed store every file with at least one row has
\* exactly one entity of kind module; its qualname is the dotted path with
\* the extension removed and a trailing __init__ segment dropped, or the
\* single segment "module" when that leaves nothing (an __init__ file at the
\* root of the tree).
C11_ModuleQualnameOrFallback ==
    \A fp \in paths_with_rows(db) :
        /\ Cardinality(module_entities_of(db, fp)) = 1
        /\ \A e \in module_entities_of(db, fp) :
               e.qualname = IF stated_module_qualname(fp) = <<>>
                            THEN <<"module">>
                            ELSE stated_module_qualname(fp)

\* a committed store holds the rows of a package initializer below the root
\* and of one at the root
C11_Witness ==
    /\ pc = "done"
    /\ \E fp \in paths_with_rows(db) :
           /\ is_package_init(fp)
           /\ \E e \in db.entities : e.file_path = fp /\ e.kind # "module"

(***************************************************************************)
(* Calls through an import binding.                                        *)
(***************************************************************************)
\* e is defined at the top level of its module
top_level_definition(e) ==
    e.kind # "module" /\ e.qualname = module_name_from_path(e.file_path) \o e.name

\* the entity rows of the scope a relation row was extracted in
caller_rows(r) ==
    {c \in db.entities : c.file_path = r.file_path /\ c.qualname = r.src_qualname}

\* the numbers of scopes between the caller of r and an enclosing scope with
\* an import that binds the first segment of the raw target so that the
\* target names the entity e (0: the caller's own scope)
binding_depths(r, e) ==
    LET dst == lower_name(r.dst_name)
        n == Len(r.src_qualname)
    IN  {d \in 0..(n - 1) :
            \E row \in Range(db.relations) :
                /\ row.relation \in {"imports", "imports_alias"}
                /\ row.file_path = r.file_path
                /\ row.src_qualname = SubSeq(r.src_qualname, 1, n - d)
                /\ \/ /\ row.relation = "imports"
                      /\ lower(row.dst_name[Len(row.dst_name)]) = dst[1]
                      /\ lower_name(row.dst_name) \o Tail(dst) = lower_name(e.qualname)
                   \/ /\ row.relation = "imports_alias"
                      /\ parse_import_alias(row.dst_name)[1] = dst[1]
                      /\ parse_import_alias(row.dst_name)[2] \o Tail(dst)
                             = lower_name(e.qualname)}

\* the caller's module or class defines something under the local name
defines_locally(r, c) ==
    \E x \in db.entities :
        /\ x.file_path = r.file_path
        /\ x.kind # "module"
        /\ lower_name(x.name) = <<lower(r.dst_name[1])>>
        /\ \/ drop_last(x.qualname) = module_name_from_path(r.file_path)
           \/ c.kind = "method" /\ drop_last(x.qualname) = drop_last(c.qualname)

\* r is a call, made in a function or method c, of the top-level definition
\* e of another module by a locally imported name
calls_through_import(r, c, e) ==
    /\ r.relation = "calls"
    /\ Len(r.dst_name) \in {1, 2}
    /\ c \in caller_rows(r)
    /\ c.kind \in {"function", "method"}
    /\ top_level_definition(e)
    /\ e.file_path # r.file_path
    /\ binding_depths(r, e) # {}
    /\ ~defines_locally(r, c)

\* max(0.84, 0.95 - 0.02 * depth), less 0.01 for a dotted target, in
\* thousandths
stated_binding_score(r, d) ==
    Max({840, 950 - 20 * d}) - (IF Len(r.dst_name) > 1 THEN 10 ELSE 0)

binds_prefix(r) ==
    \E row \in Range(db.relations) : \E n \in 1..Len(r.src_qualname) :
        /\ row.relation \in {"imports", "imports_alias"}
        /\ row.file_path = r.file_path
        /\ row.src_qualname = SubSeq(r.src_qualname, 1, n)
        /\ \/ /\ row.relation = "imports"
              /\ lower(row.dst_name[Len(row.dst_name)]) = lower(r.dst_name[1])
           \/ /\ row.relation = "imports_alias"
              /\ parse_import_alias(row.dst_name)[1] = lower(r.dst_name[1])

\* r is a call of X.f: X is not self or cls and no import binds it
unbound_dotted_call(r) ==
    /\ r.relation = "calls"
    /\ Len(r.dst_name) >= 2
    /\ lower(r.dst_name[1]) \notin {"self", "cls"}
    /\ ~binds_prefix(r)

\* the query matches the raw target: the same name, a dotted suffix of it or
\* a substring
matches_raw_target(symbol, r) ==
    str_contains(dotted(lower_name(r.dst_name)), dotted(lower_name(symbol)))

\* the call rows that match the query and do not sort after the unresolved
\* row r; every row with resolved = 1 sorts before it
not_after(symbol, r) ==
    {o \in Range(db.relations) :
        /\ o # r
        /\ callers_match(db.entities, o, dotted(lower_name(symbol)))
        /\ \/ o.resolved = 1
           \/ path_rank(o.file_path) < path_rank(r.file_path)
           \/ o.file_path = r.file_path /\ o.line <= r.line}

\* a find_callers call returns
CallersReturned == seen' # seen /\ seen'.fn = "find_callers"

\* C13 as stated: a call of X.f, X not self or cls, where no entity's
\* qualname equals X.f or ends with .X.f and no import in the caller's scope
\* chain binds X, is stored with resolved = false, a null destination and
\* confidence 0.0; find_callers returns it whenever resolved_only is false
\* and never when resolved_only is true.
C13_UnboundCallKeptAndReturned ==
    /\ [](\A r \in extracted_relations :
            ( /\ unbound_dotted_call(r)
              /\ \A e \in db.entities : r.dst_name \notin suffixes_of(e.qualname) )
            => r.resolved = 0 /\ r.dst_entity_id = NULL /\ r.confidence = 0)
    /\ [][CallersReturned =>
            \A r \in extracted_relations :
              ( /\ unbound_dotted_call(r)
                /\ \A e \in db.entities : r.dst_name \notin suffixes_of(e.qualname) )
              => IF seen'.resolved_only
                 THEN caller_row(db.entities, r) \notin Range(seen'.rows)
                 ELSE matches_raw_target(seen'.symbol, r)
                      => caller_row(db.entities, r) \in Range(seen'.rows)]_vars

\* C13, amended: such a call (names compared ignoring case) is stored with
\* resolved = false, a null destination and confidence 0.0; find_callers
\* never returns it when resolved_only is true, and returns it when
\* resolved_only is false, the symbol matches its raw target and fewer than
\* limit matching call rows sort before it or level with it.
C13_UnboundCallReturnedWithinLimit ==
    /\ [](\A r \in extracted_relations :
            ( /\ unbound_dotted_call(r)
              /\ \A e \in db.entities :
                     lower_name(r.dst_name) \notin suffixes_of(lower_name(e.qualname)) )
            => r.resolved = 0 /\ r.dst_entity_id = NULL /\ r.confidence = 0)
    /\ [][CallersReturned =>
            \A r \in extracted_relations :
              ( /\ unbound_dotted_call(r)
                /\ \A e \in db.entities :
                       lower_name(r.dst_name) \notin suffixes_of(lower_name(e.qualname)) )
              => IF seen'.resolved_only
                 THEN caller_row(db.entities, r) \notin Range(seen'.rows)
                 ELSE ( /\ matches_raw_target(seen'.symbol, r)
                        /\ Cardinality(not_after(seen'.symbol, r)) < seen'.limit )
                      => caller_row(db.entities, r) \in Range(seen'.rows)]_vars

\* find_callers has returned the unresolved call of pkg.foo from a committed
\* graph that also holds resolved calls matching the query
C13_Witness ==
    /\ seen.fn = "find_callers"
    /\ ~seen.resolved_only
    /\ \E r \in extracted_relations :
           /\ unbound_dotted_call(r)
           /\ r.resolved = 0
           /\ caller_row(db.entities, r) \in Range(seen.rows)
           /\ \E o \in Range(seen.rows) : o.resolved

(***************************************************************************)
(* The derived relations.                                                  *)
(***************************************************************************)
\* the methods a class row defines
methods_defined_by(cls) ==
    {e \in db.entities : /\ e.kind = "method"
                         /\ e.file_path = cls.file_path
                         /\ e.qualname = cls.qualname \o e.name}

\* the pairs (S.m, B.m) for a resolved inherits relation from class S to
\* class B, both defining a method named m
stated_overrides ==
    {<<sm.id, bm.id>> :
        <<sm, bm>> \in {p \in db.entities \X db.entities :
            \E inh \in Range(db.relations) : \E S, B \in db.entities :
                /\ inh.relation = "inherits" /\ inh.resolved = 1
                /\ S.id = inh.src_entity_id /\ S.kind = "class"
                /\ B.id = inh.dst_entity_id /\ B.kind = "class"
                /\ p[1] \in methods_defined_by(S)
                /\ p[2] \in methods_defined_by(B)
                /\ p[1].name = p[2].name}}

\* C14 as stated: in the committed graph there is an overrides relation
\* from method S.m to method B.m exactly if there is a resolved inherits
\* relation from class S to class B and both define a method named m; every
\* overrides relation has resolved = true and confidence 1.0.
C14_OverridesIffInherited ==
    LET rows == {r \in Range(db.relations) : r.relation = "overrides"}
    IN  /\ {<<r.src_entity_id, r.dst_entity_id>> : r \in rows} = stated_overrides
        /\ \A r \in rows : r.resolved = 1 /\ r.confidence = 1000

\* the class row a method is counted under: the last one, in the order of
\* the unique index on (file_path, qualname, kind), whose qualname is,
\* ignoring case, the method's qualname without its last segment
owner_class(e) ==
    LET classes == {c \in db.entities :
                       /\ c.kind = "class"
                       /\ lower_name(c.qualname) = lower_name(drop_last(e.qualname))}
        after(a, b) ==
            \/ path_rank(a.file_path) > path_rank(b.file_path)
            \/ /\ a.file_path = b.file_path
               /\ lex_less(name_key(b.qualname), name_key(a.qualname))
    IN  IF e.kind # "method" \/ Len(e.qualname) < 2 \/ classes = {}
        THEN NULL
        ELSE (CHOOSE c \in classes : \A o \in classes : o = c \/ after(c, o)).id

\* the pairs of a method counted under S and a method counted under B, of
\* one name ignoring case, for a resolved inherits relation from S to B
case_blind_overrides ==
    {p \in db.entities \X db.entities :
        \E inh \in Range(db.relations) :
            /\ inh.relation = "inherits" /\ inh.resolved = 1
            /\ owner_class(p[1]) # NULL /\ owner_class(p[1]) = inh.src_entity_id
            /\ owner_class(p[2]) # NULL /\ owner_class(p[2]) = inh.dst_entity_id
            /\ lower_name(p[1].name) = lower_name(p[2].name)}

\* What the Deriver does: the overrides relations of the committed graph
\* run from a method counted under S to a method counted under B of the same
\* name ignoring case, for a resolved inherits relation from S to B; every
\* such pair has a relation with its file_path, src_qualname, dst_name and
\* line; every overrides relation has resolved = true and confidence 1.0.
OverridesIgnoringCase ==
    LET rows == {r \in Range(db.relations) : r.relation = "overrides"}
    IN  /\ \A r \in rows :
               \E p \in case_blind_overrides :
                   r.src_entity_id = p[1].id /\ r.dst_entity_id = p[2].id
        /\ \A p \in case_blind_overrides :
               \E r \in rows :
                   /\ r.file_path = p[1].file_path /\ r.src_qualname = p[1].qualname
                   /\ r.dst_name = p[2].qualname /\ r.line = p[1].line
        /\ \A r \in rows : r.resolved = 1 /\ r.confidence = 1000

\* a committed graph in which the method run of a subclass is recorded as
\* overriding the method Run of its base
C14_Witness ==
    /\ pc = "done"
    /\ \E r \in Range(db.relations) :
           /\ r.relation = "overrides"
           /\ r.src_qualname = <<"c", "Sub", "run">>
           /\ r.dst_name = <<"c", "Foo", "Run">>

\* the resolved calls of the committed graph whose destination is a class
calls_to_classes ==
    {r \in Range(db.relations) :
        /\ r.relation = "calls" /\ r.resolved = 1
        /\ \E e \in db.entities : e.id = r.dst_entity_id /\ e.kind = "class"}

instantiates_in_store == {r \in Range(db.relations) : r.relation = "instantiates"}

\* an instantiates row and a call agree on file_path, src_qualname, line,
\* source entity, destination entity and confidence
same_endpoints(i, c) ==
    /\ i.file_path = c.file_path /\ i.src_qualname = c.src_qualname /\ i.line = c.line
    /\ i.src_entity_id = c.src_entity_id /\ i.dst_entity_id = c.dst_entity_id
    /\ i.confidence = c.confidence

\* C15 as stated: in the committed graph every resolved call whose
\* destination is a class has an instantiates relation with its file_path,
\* src_qualname, line, source entity, destination entity and confidence, and
\* resolved = true; every instantiates relation has such a call.
C15_InstantiatesPerCall ==
    /\ \A c \in calls_to_classes :
           \E i \in instantiates_in_store : same_endpoints(i, c) /\ i.resolved = 1
    /\ \A i \in instantiates_in_store : \E c \in calls_to_classes : same_endpoints(i, c)

\* C15, amended: the resolved calls to classes of one file_path,
\* src_qualname, line and class qualname share one instantiates relation:
\* it has resolved = true, the class qualname as dst_name, and the source
\* entity, destination entity and confidence of one of these calls; every
\* instantiates relation is such a row.
C15_InstantiatesPerCallSite ==
    /\ \A c \in calls_to_classes :
           \E i \in instantiates_in_store :
               /\ i.file_path = c.file_path /\ i.src_qualname = c.src_qualname
               /\ i.line = c.line /\ i.resolved = 1
               /\ \E e \in db.entities : e.id = c.dst_entity_id /\ e.qualname = i.dst_name
    /\ \A i \in instantiates_in_store :
           /\ i.resolved = 1
           /\ \E c \in calls_to_classes :
                  /\ same_endpoints(i, c)
                  /\ \E e \in db.entities : e.id = c.dst_entity_id /\ e.qualname = i.dst_name
    /\ \A i, j \in instantiates_in_store : relation_key(i) = relation_key(j) => i = j

\* a committed graph in which two calls on one line reach one class with
\* different confidences and share one instantiates relation
C15_Witness ==
    /\ pc = "done"
    /\ \E c, d \in calls_to_classes :
           /\ c.file_path = d.file_path /\ c.src_qualname = d.src_qualname
           /\ c.line = d.line /\ c.dst_entity_id = d.dst_entity_id
           /\ c.confidence # d.confidence
           /\ \E i \in instantiates_in_store : same_endpoints(i, c)

\* the rows of the derived kinds, with their number of occurrences
derived_rows(store) ==
    SelectSeq(store.relations, LAMBDA r : r.relation \in DerivedKinds)

other_rows(store) ==
    SelectSeq(store.relations, LAMBDA r : r.relation \notin DerivedKinds)

\* a second Deriver pass over the result of a first changes nothing
derive_again_same(store) ==
    LET once == derive_rich_relations(store)
        twice == derive_rich_relations(once)
    IN  /\ Range(derived_rows(twice)) = Range(derived_rows(once))
        /\ Len(derived_rows(twice)) = Len(derived_rows(once))
        /\ Len(derived_rows(once)) = Cardinality(Range(derived_rows(once)))
        /\ other_rows(twice) = other_rows(once)
        /\ other_rows(once) = other_rows(store)
        /\ twice.entities = store.entities

\* C16: the Deriver is idempotent: run again on a store whose entities and
\* resolved relations did not change, on the committed graph or on the
\* working rows of a running operation, it yields the same instantiates and
\* overrides relations, none duplicated and none lost, and leaves the
\* relations of every other kind as they are.
C16_DeriverIdempotent ==
    /\ derive_again_same(tx)
    /\ derive_again_same(db)
    /\ pc = "done" =>
          /\ Range(derived_rows(derive_rich_relations(db))) = Range(derived_rows(db))
          /\ Len(derived_rows(derive_rich_relations(db))) = Len(derived_rows(db))

\* a committed graph with an instantiates and an overrides relation, on
\* which a second pass has something to regenerate
C16_Witness ==
    /\ pc = "done"
    /\ \E r \in Range(db.relations) : r.relation = "instantiates"
    /\ \E r \in Range(db.relations) : r.relation = "overrides"

(***************************************************************************)
(* C17: schema migration                                                   *)
(***************************************************************************)
\* whether the relations table lacks one of the link columns
lacks_link_column(store) == ~(LinkColumns \subseteq table_columns(store))

\* the columns of a row that every version of the schema writes
base_columns_of(r) == [c \in BaseColumns |-> r[c]]

\* the rows of an old store as the Resolver leaves them
stated_resolution(old) ==
    resolve_relations(old.entities,
                      [i \in 1..Len(old.relations) |-> old.relations[i] @@ Unlinked])

\* _connect has returned a connection on a store that lacked a link column
Migrated == pc = "done" /\ op.kind = "connect" /\ lacks_link_column(pre)

\* C17: when a store whose relations table lacks one of src_entity_id,
\* dst_entity_id, resolved, confidence has been opened, the table has the
\* four columns, the entity rows are the rows that were in the store, every
\* relation row that was in the store is still there, in its place, with the
\* resolution the Resolver assigns to it, and the Deriver pass has run: the
\* committed rows are what a Resolver pass and a Deriver pass make of the old
\* rows.
C17_MigrationKeepsAndLinksRows ==
    Migrated =>
        /\ LinkColumns \subseteq table_columns(db)
        /\ db.entities = pre.entities
        /\ Len(db.relations) >= Len(pre.relations)
        /\ \A i \in 1..Len(pre.relations) :
              /\ base_columns_of(db.relations[i]) = base_columns_of(pre.relations[i])
              /\ db.relations[i] = stated_resolution(pre)[i]
        /\ db.relations =
              derive_rich_relations(
                  [db EXCEPT !.relations = stated_resolution(pre)]).relations

\* an old store with a call has been opened, and the call is resolved
C17_Witness ==
    /\ Migrated
    /\ "confidence" \notin table_columns(pre)
    /\ \E i \in 1..Len(pre.relations) :
          /\ pre.relations[i].relation = "calls"
          /\ db.relations[i].resolved = 1
          /\ db.relations[i].dst_entity_id # NULL
    /\ \E r \in Range(db.relations) : r.relation \in {"instantiates", "overrides"}

(***************************************************************************)
(* C18: a query beside a running rebuild or incremental update             *)
(***************************************************************************)
\* the rows a query gives on a store, for the arguments of a returned answer
answer_on(store, q, tie) ==
    CASE q.fn = "find_callers" ->
            find_callers(store, q.symbol, q.limit, q.resolved_only, tie)
      [] q.fn = "find_callees" ->
            find_callees(store, q.symbol, q.limit, q.resolved_only, tie)
      [] q.fn = "find_subclasses" ->
            find_subclasses(store, q.symbol, q.limit, q.resolved_only, tie)
      [] OTHER -> <<>>

\* the running operation is between its first delete and its commit
BuildRunning == pc \in {"index", "derive", "commit"}

\* a query returns while an operation is between its first delete and its
\* commit
QueryBesideBuild == BuildRunning /\ seen' # seen /\ seen'.fn # "none"

\* some of the operation's deletes, inserts, resolution or derived rows
\* would change the answer
differs_in_transit(q) ==
    \A tie \in TieOrders : answer_on(tx, q, tie) # answer_on(pre, q, tie)

OtherHoldsThroughout == lock_pc[Other] = "held"

\* C19: while another holder has the lock, the acquire of a rebuild or
\* incremental update does not return True: it returns False, __enter__
\* raises OSError, the operation raises to its caller without opening its
\* connection, and no entity or relation row is changed.
C19_HeldLockRefusesOperation ==
    OtherHoldsThroughout =>
        /\ lock_pc[Builder] \notin {"write", "held"}
        /\ pc \in {"idle", "lock", "refused"}
        /\ db = pre
        /\ tx = pre

\* what holds of the operations whose acquire returned False: the lock
\* was asked for before anything else, the failure leaves the rows of the
\* store and the lock of the other holder as they were
RefusedOperationChangesNothing ==
    /\ pc \in {"lock", "refused"} => db = pre /\ tx = pre
    /\ pc = "refused" => lock_pc[Builder] = "idle" /\ flocked[lock_file[Other]] = Other

\* an operation on a graph with rows was refused the lock and raised
C19_Refused ==
    /\ OtherHoldsThroughout
    /\ pc = "refused"
    /\ db.entities # {}
    /\ op.kind = "update"

\* an operation has the lock while the other holder has it, too, and has
\* written rows
C19_Witness ==
    /\ OtherHoldsThroughout
    /\ lock_pc[Builder] = "held"
    /\ pc = "commit"
    /\ tx # pre

(***************************************************************************)
(* C20: stale-lock recovery and clean release                              *)
(***************************************************************************)
\* no process has a flock on any file
Unheld == \A i \in Inodes : flocked[i] = NoProc

\* process p has called acquire, the sidecar file is there with an mtime of
\* more than 60 s ago, no process holds it and no other process is using
\* the lock
FindsStale(p) ==
    /\ lock_pc[p] = "exists"
    /\ lock_path # NoFile
    /\ aged
    /\ Unheld
    /\ \A q \in Procs \ {p} : lock_pc[q] = "idle"

\* another process has got the flock in an acquire of its own
TakenByAnother(p) == \E q \in Procs \ {p} : lock_pc[q] \in {"write", "held"}

\* the acquire that found the sidecar file stale removes it
RemovesStale(p) ==
    /\ (lock_pc[p] = "stat" /\ lock_pc'[p] # "stat" /\ lock_path # NoFile /\ aged)
          => lock_pc'[p] = "unlink"
    /\ (lock_pc[p] = "unlink" /\ lock_pc'[p] # "unlink") => lock_path' = NoFile

\* release has run to its end
Released(p) == lock_pc[p] = "released" /\ lock_pc'[p] = "idle"

\* C20: if the sidecar lock file exists with an mtime more than 60 s in the
\* past and no process holds it, an acquire removes it and succeeds, as long
\* as no process holds the lock: the acquire returns True unless another
\* process that called acquire after it gets the lock; and when a holder's
\* release has run, the sidecar lock file does not exist.
C20_StaleRecoveredAndReleasedClean ==
    /\ \A p \in Procs : FindsStale(p) ~> (lock_pc[p] = "held" \/ TakenByAnother(p))
    /\ [][\A p \in Procs : RemovesStale(p) /\ (Released(p) => lock_path' = NoFile)]_vars

\* an acquire is about to remove the stale sidecar file a killed holder left
C20_Witness ==
    \E p \in Procs :
        /\ lock_pc[p] = "unlink"
        /\ lock_path # NoFile
        /\ aged
        /\ Unheld
        /\ \A q \in Procs \ {p} : lock_pc[q] = "idle"


(***************************************************************************)
(* C21  The parser bridge never fails the extraction.  An exchange has     *)
(* failed when node is missing, the subprocess raised or timed out, it     *)
(* exited non-zero, it printed nothing, it printed something that is not   *)
(* JSON, or it printed a response that is not an object with a true ok and *)
(* list-valued entities and relations.  When every exchange has failed the *)
(* bridge returns None and the extraction returns the heuristic rows       *)
(* without raising; when the bridge returns rows, those rows are returned. *)
(***************************************************************************)
UsableTexts ==
    {"{\"ok\": true}",
     "{\"ok\": true, \"entities\": [], \"relations\": []}",
     "{\"ok\": true, \"entities\": [\"e\"], \"relations\": [\"r\"]}"}

ExchangeFailed(x) ==
    \/ ~x.node
    \/ x.run # "completed"
    \/ x.returncode # 0
    \/ x.stdout \notin UsableTexts \cup {"{\"ok\": 1}"}

Extracted == seen.fn = "extract_javascript_entities"

BridgeRows == Extracted /\ "entities" \in DOMAIN seen.bridge

C21_BridgeNeverFails ==
    Extracted =>
        /\ (\A i \in DOMAIN seen.exchanges : ExchangeFailed(seen.exchanges[i])) =>
                seen.bridge = JNull /\ seen.rows = HeuristicRows
        /\ BridgeRows => seen.rows = seen.bridge

\* the response is JSON, but not an object, and the extraction raises
C21_Witness ==
    /\ Extracted
    /\ Len(seen.exchanges) = 1
    /\ seen.exchanges[1] = [node |-> TRUE, run |-> "completed", returncode |-> 0,
                            stdout |-> "[1]"]
    /\ seen.rows = Raised("AttributeError")

\* every failure the driver itself detects ends in the heuristic rows
DriverDetected(x) ==
    \/ ~x.node
    \/ x.run # "completed"
    \/ x.returncode # 0
    \/ x.stdout \in {"", " ", "{oops", "null", "false", "0", "[]", "{}",
                     "{\"ok\": false}",
                     "{\"ok\": true, \"entities\": 3, \"relations\": []}"}

DetectedFailuresFallBack ==
    Extracted =>
        /\ (\A i \in DOMAIN seen.exchanges : DriverDetected(seen.exchanges[i])) =>
                seen.bridge = JNull /\ seen.rows = HeuristicRows
        /\ BridgeRows => seen.rows = seen.bridge

C21_FellBack ==
    /\ Extracted
    /\ \E i \in DOMAIN seen.exchanges : seen.exchanges[i].stdout = "{oops"
    /\ \A i \in DOMAIN seen.exchanges : DriverDetected(seen.exchanges[i])
    /\ seen.rows = HeuristicRows


(***************************************************************************)
(* C22: per-file failures                                                  *)
(***************************************************************************)
\* a file that is there but cannot be read, or whose source does not parse
Unusable(file) == file.st = "unreadable" \/ (file.st = "ok" /\ ~file.src.parses)

\* the files the running operation is to index
op_files == IF op.kind = "rebuild" THEN Range(op.files) ELSE Range(op.changed)

\* the loop over the files has come to a file that is unusable
AtUnusable ==
    /\ pc = "index"
    /\ op.todo # <<>>
    /\ supports_path(Head(op.todo))
    /\ Unusable(file_at(files, Head(op.todo)))

\* C22: in a rebuild and in an incremental update, a file that cannot be
\* read or whose source is malformed is passed over: the loop can go on to
\* the next file with no row added and no error, and once the operation has
\* committed, the store has no row under such a file and has the extracted
\* rows of every other file given to the operation.
C22_PerFileFailuresSkipped ==
    /\ AtUnusable => ENABLED (IndexFile /\ tx' = tx)
    /\ pc = "done" =>
          \A fp \in op_files :
              LET file == file_at(files, fp)
                  ents == {o \in db.entities : o.file_path = fp}
                  rels == {o \in Range(db.relations) : o.file_path = fp}
              IN  IF supports_path(fp) /\ Unusable(file)
                  THEN ents = {} /\ rels = {}
                  ELSE skips(op.kind, fp, file) \/
                       {entity_columns(e) : e \in ents}
                           = first_of_key(extract_entities(fp, file.src).entities)

\* a rebuild has come to a file that cannot be read
C22_Witness ==
    /\ AtUnusable
    /\ op.kind = "rebuild"
    /\ file_at(files, Head(op.todo)).st = "unreadable"

\* what does hold: a malformed source is passed over by both operations and
\* an unreadable file by the incremental update, and the other files of the
\* operation are committed
ParseFailuresSkipped ==
    /\ (AtUnusable /\ (op.kind = "update" \/ file_at(files, Head(op.todo)).st = "ok"))
           => ENABLED (IndexFile /\ tx' = tx)
    /\ pc = "done" =>
          \A fp \in op_files :
              LET file == file_at(files, fp)
                  ents == {o \in db.entities : o.file_path = fp}
                  rels == {o \in Range(db.relations) : o.file_path = fp}
              IN  IF supports_path(fp) /\ Unusable(file)
                  THEN ents = {} /\ rels = {}
                  ELSE skips(op.kind, fp, file) \/
                       {entity_columns(e) : e \in ents}
                           = first_of_key(extract_entities(fp, file.src).entities)

\* an operation has committed the rows of one file beside an unusable one
C22_Skipped ==
    /\ pc = "done"
    /\ \E fp \in op_files : supports_path(fp) /\ Unusable(file_at(files, fp))
    /\ \E fp \in op_files : \E e \in db.entities : e.file_path = fp


(***************************************************************************)
(* C23: find_entities                                                      *)
(***************************************************************************)
\* the query find_entities matches with: the symbol stripped and lower-cased
asked == str_lower(str_strip(seen.symbol))

\* the entities the query read whose name or qualname contains the query,
\* ignoring case, of the kind asked for when one is asked for
containing ==
    {e \in seen.read :
        /\ \/ str_contains(dotted(lower_name(e.name)), asked)
           \/ str_contains(dotted(lower_name(e.qualname)), asked)
        /\ seen.kind # "" => e.kind = seen.kind}

\* the score the claim gives an entity
stated_score(e) ==
    IF dotted(lower_name(e.name)) = asked THEN 1000
    ELSE IF dotted(lower_name(e.qualname)) = asked THEN 950
    ELSE IF str_starts_with(dotted(lower_name(e.name)), asked) THEN 800
    ELSE 650

\* a comes before b: by score downwards, then by qualname upwards
stated_before(a, b) ==
    \/ a.score > b.score
    \/ a.score = b.score /\ lex_less(name_key(a.qualname), name_key(b.qualname))

EntitiesAnswer ==
    LET rows == seen.rows
        without_score(r) == [file_path |-> r.file_path, name |-> r.name,
                             qualname |-> r.qualname, kind |-> r.kind, line |-> r.line]
        stated(e) == [file_path |-> e.file_path, name |-> e.name, qualname |-> e.qualname,
                      kind |-> e.kind, line |-> e.line, score |-> stated_score(e)]
    IN  /\ \A j \in DOMAIN rows : \E e \in containing : rows[j] = stated(e)
        /\ Len(rows) = Min({seen.limit, Cardinality({stated(e) : e \in containing})})
           \/ Len(rows) = Min({seen.limit, Cardinality(containing)})
        /\ \A j \in 1..(Len(rows) - 1) : ~stated_before(rows[j + 1], rows[j])
        /\ \A e \in containing :
              (\A j \in DOMAIN rows : rows[j] # stated(e)) =>
                  \A j \in DOMAIN rows : ~stated_before(stated(e), rows[j])

\* C23: find_entities(symbol, kind, limit) returns the entities whose name
\* or qualname contains the query, ignoring case, of the given kind if one
\* is given; each with the score 1.0 if its name is the query, else 0.95 if
\* its qualname is, else 0.8 if its name starts with it, else 0.65; in the
\* order of score downwards and qualname upwards; the first limit of them.
C23_FindEntities ==
    (seen.fn = "find_entities" /\ asked # "") => EntitiesAnswer

\* a query with an underscore has returned an entity that matches it
\* through the underscore only
C23_Witness ==
    /\ seen.fn = "find_entities"
    /\ seen.symbol = "r_n"
    /\ \E j \in DOMAIN seen.rows : seen.rows[j].name = <<"run">>

\* a query without % and _ is answered as stated
has_wildcard(q) == \E i \in 1..Len(q) : SubSeq(q, i, i) \in {"_", "%"}

PlainQueryAnswered ==
    (seen.fn = "find_entities" /\ asked # "" /\ ~has_wildcard(asked)) => EntitiesAnswer

C23_PlainAnswered ==
    /\ seen.fn = "find_entities"
    /\ seen.symbol = " c.Foo "
    /\ seen.limit = DefaultEntityLimit
    /\ Len(seen.rows) >= 2
    /\ seen.rows[1].score = 950
    /\ seen.rows[2].score = 650


(***************************************************************************)
(* C24: the order of the relation queries                                  *)
(***************************************************************************)
\* a find_callers, find_callees or find_subclasses call returns
RelationsReturned ==
    /\ seen' # seen
    /\ seen'.fn \in {"find_callers", "find_callees", "find_subclasses"}

\* row a stands before row b in the stated order
ranked_before(a, b) ==
    \/ a.resolved /\ ~b.resolved
    \/ a.resolved = b.resolved /\ a.confidence > b.confidence
    \/ a.resolved = b.resolved /\ a.confidence = b.confidence
          /\ path_rank(a.file_path) < path_rank(b.file_path)
    \/ a.resolved = b.resolved /\ a.confidence = b.confidence
          /\ a.file_path = b.file_path /\ a.line < b.line

\* the first n elements of a sequence
first_n(rows, n) == SubSeq(rows, 1, Min({n, Len(rows)}))

\* the answer to query q with no filter and no truncation
whole_ordering(store, q, tie) ==
    answer_on(store, [q EXCEPT !.resolved_only = FALSE,
                               !.limit = Len(store.relations) + 1], tie)

\* C24: find_callers, find_callees and find_subclasses return their matching
\* relations in the order resolved downwards, confidence downwards,
\* file_path upwards, line upwards, cut to limit: the answer is the first
\* limit rows of the whole ordering of the matching rows; with resolved_only
\* every returned row is resolved and the answer is the first limit rows of
\* the resolved rows of the unfiltered ordering.
C24_RankedAndFiltered ==
    [][RelationsReturned =>
          LET rows == seen'.rows
              resolved_row(r) == r.resolved
          IN  /\ Len(rows) <= seen'.limit
              /\ \A j \in 1..(Len(rows) - 1) : ~ranked_before(rows[j + 1], rows[j])
              /\ seen'.resolved_only => \A j \in DOMAIN rows : rows[j].resolved
              /\ \E tie \in TieOrders : \E whole \in {whole_ordering(db, seen', tie)} :
                        /\ \A j \in 1..(Len(whole) - 1) :
                              ~ranked_before(whole[j + 1], whole[j])
                        /\ rows = first_n(IF seen'.resolved_only
                                          THEN SelectSeq(whole, resolved_row)
                                          ELSE whole,
                                          seen'.limit)]_vars

\* a query with resolved_only and limit 1 has returned the first of the
\* resolved rows, out of matching rows of which one is unresolved
C24_Witness ==
    /\ seen.fn \in {"find_callers", "find_callees", "find_subclasses"}
    /\ seen.resolved_only
    /\ seen.limit = 1
    /\ Len(seen.rows) = 1
    /\ \E tie \in TieOrders :
          LET whole == whole_ordering(db, seen, tie)
          IN  /\ Len(whole) >= 3
              /\ \E j \in DOMAIN whole : ~whole[j].resolved
              /\ seen.rows[1] = whole[1]


(***************************************************************************)
(* C25: the order of the events of one operation                           *)
(***************************************************************************)
\* the successions of the position of an operation: lock, open store,
\* delete, insert, Resolver, Deriver, commit, and the ways out
EventOrder ==
    {<<"idle", "lock">>, <<"lock", "clear">>, <<"lock", "refused">>,
     <<"clear", "index">>, <<"index", "derive">>, <<"derive", "commit">>,
     <<"commit", "done">>, <<"index", "failed">>, <<"derive", "failed">>,
     <<"commit", "failed">>, <<"done", "idle">>, <<"failed", "idle">>,
     <<"refused", "idle">>}

\* the operation holds the lock: its acquire has returned True and its
\* release has not begun
LockHeld == lock_pc[Builder] = "held"

\* C25: within one rebuild or incremental update the events come in the
\* order acquire lock, open store, delete rows, insert extracted rows,
\* Resolver pass, Deriver pass, commit, release lock: the lock is acquired
\* before the store is opened and released only after the commit or the
\* failure, and every step that changes a row of the store, committed or
\* working, starts and ends with the lock held.
C25_EventsInOrderUnderLock ==
    [][/\ pc' # pc => <<pc, pc'>> \in EventOrder
       /\ (LockHeld' /\ ~LockHeld) => pc = "lock" /\ pc' = "lock"
       /\ (LockHeld /\ ~LockHeld') => pc \in {"done", "failed"} /\ pc' = pc
       /\ pc \in {"clear", "index", "derive", "commit"} => LockHeld /\ LockHeld'
       /\ (db' # db \/ tx' # tx) =>
             /\ pc \in {"clear", "index", "derive", "commit"}
             /\ LockHeld /\ LockHeld']_vars

\* an update has committed new rows and its lock has been released
C25_Witness ==
    /\ pc = "done"
    /\ op.kind = "update"
    /\ db # pre
    /\ lock_pc[Builder] = "idle"
    /\ lock_file[Builder] = NoFile


(***************************************************************************)
(* C26: an incremental update against a rebuild of the resulting files     *)
(***************************************************************************)
\* the entity at one end of a relation, without its row id (no entity for
\* a NULL id)
end_of(E, id) ==
    {[file_path |-> e.file_path, qualname |-> e.qualname, kind |-> e.kind] :
        e \in joined(E, id)}

\* the rows of a store up to the renaming of row ids
graph_rows(store) ==
    [entities |-> {entity_columns(e) : e \in store.entities},
     relations |->
        {[file_path |-> r.file_path, src_qualname |-> r.src_qualname,
          dst_name |-> r.dst_name, relation |-> r.relation, line |-> r.line,
          resolved |-> r.resolved, confidence |-> r.confidence,
          src |-> end_of(store.entities, r.src_entity_id),
          dst |-> end_of(store.entities, r.dst_entity_id)] : r \in Range(store.relations)}]

\* the source trees of the world
Trees ==
    {t \in [WorldPaths(world) ->
               {MissingFile} \cup [st : {"ok"},
                                   src : UNION {Sources(world, fp) : fp \in WorldPaths(world)}]] :
        \A fp \in WorldPaths(world) : t[fp] = MissingFile \/ t[fp].src \in Sources(world, fp)}

\* an update has committed a change set in which every changed file exists,
\* is supported, can be read and is within the size ceiling, and every
\* deleted file is gone
UsableChangeSet ==
    /\ pc = "done"
    /\ op.kind = "update"
    /\ \A fp \in Range(op.changed) :
          /\ supports_path(fp)
          /\ files[fp].st = "ok"
          /\ ~files[fp].src.big
    /\ \A fp \in Range(op.deleted) : files[fp].st = "missing"

\* the store before the update was the rebuild over fl of a tree that
\* differs from the files of now on touched paths only
BuiltBefore(fl, earlier) ==
    /\ \A fp \in WorldPaths(world) \ touched_paths : earlier[fp] = files[fp]
    /\ graph_rows(pre) = graph_rows(rebuild_entity_graph(EmptyStore, fl, earlier))

\* C26: starting from the graph a rebuild gave for a set of files, after an
\* incremental update with a change set in which every changed file exists,
\* is supported and is within the size ceiling, the store equals, up to the
\* renaming of row ids, the one rebuild_entity_graph gives for the files as
\* they are now.
C26_UpdateEqualsRebuild ==
    UsableChangeSet =>
        \A fl \in RebuildLists(world) : \A earlier \in Trees :
            BuiltBefore(fl, earlier) =>
                graph_rows(db) = graph_rows(rebuild_entity_graph(EmptyStore, fl, files))

\* an update of one of two files that define the same qualname
C26_Witness ==
    /\ UsableChangeSet
    /\ world = "dup"
    /\ op.changed = <<M_py>>
    /\ \E earlier \in Trees : BuiltBefore(<<M_py, M_init_py>>, earlier)
    /\ graph_rows(db) # graph_rows(rebuild_entity_graph(EmptyStore, <<M_py, M_init_py>>, files))

\* what does hold: the store equals the rebuild over the files in the order
\* in which their rows now stand in the store
UpdateEqualsSomeRebuild ==
    UsableChangeSet =>
        \A fl \in RebuildLists(world) : \A earlier \in Trees :
            BuiltBefore(fl, earlier) =>
                \E order \in SeqsUpTo(WorldPaths(world), Cardinality(WorldPaths(world))) :
                    graph_rows(db) = graph_rows(rebuild_entity_graph(EmptyStore, order, files))


(***************************************************************************)
(* C27: queries and the persisted store                                    *)
(***************************************************************************)
\* C27: find_entities, find_callers, find_callees and find_subclasses never
\* change the persisted store: its tables, columns, entity rows, relation
\* rows and resolution fields are the same before and after a query,
\* whether the store file is missing, empty, of an old schema or current;
\* so a step that changes the store is a step of a holder of the file lock.
C27_QueriesReadOnly ==
    [][/\ QueryRuns => db' = db
       /\ db' # db => \E p \in Procs : lock_pc[p] = "held"]_vars

\* a query has run on a store of an old schema and has left it with more
\* columns and with linked rows, and no lock is held
C27_Witness ==
    /\ seen.fn = "find_callers"
    /\ pre.exists
    /\ LinkColumns \cap table_columns(pre) = {}
    /\ table_columns(pre) # {}
    /\ LinkColumns \subseteq table_columns(db)
    /\ \E i \in DOMAIN db.relations : db.relations[i].resolved = 1
    /\ \A p \in Procs : lock_pc[p] # "held"

\* what does hold: a query leaves a missing store file missing and a store
\* of the current schema as it is
CurrentStoreUntouched ==
    [][(QueryRuns /\ (~db.exists \/ table_columns(db) = BaseColumns \cup LinkColumns))
          => db' = db]_vars

C27_Untouched ==
    /\ seen.fn = "find_callers"
    /\ Len(seen.rows) > 0
    /\ db = pre
    /\ table_columns(db) = BaseColumns \cup LinkColumns

(***************************************************************************)
(* Member access through a receiver name.                                  *)
(***************************************************************************)
\* the calls of the committed graph whose raw target is R.m with R one of the
\* given receiver names, issued from a method of a class that defines m
member_calls(receivers) ==
    {r \in extracted_relations :
        /\ r.relation = "calls"
        /\ Len(r.dst_name) = 2
        /\ r.dst_name[1] \in receivers
        /\ \E e \in db.entities : e.qualname = r.src_qualname /\ e.kind = "method"
        /\ \E e \in db.entities :
               e.qualname = drop_last(r.src_qualname) \o <<r.dst_name[2]>>}

\* the entity C.m a member call names
member_of(r) ==
    CHOOSE e \in db.entities : e.qualname = drop_last(r.src_qualname) \o <<r.dst_name[2]>>

\* no other entity is offered a score within 0.15 of 0.98
unrivalled(r) ==
    \A o \in offers_for(r) : o[1] # member_of(r).id => ConfSelf - o[2] >= 150

resolved_to_member(r) ==
    /\ r.resolved = 1
    /\ r.dst_entity_id = member_of(r).id
    /\ r.confidence = ConfSelf

\* C28: a calls relation issued from a method of class C whose raw target
\* is R.m, with R one of self, cls and this, resolves to the entity C.m with
\* confidence 0.98 whenever class C defines member m and no other candidate
\* entity scores within 0.15 of it.
C28_ReceiverMemberResolves ==
    \A r \in member_calls({"self", "cls", "this"}) : unrivalled(r) => resolved_to_member(r)

\* a committed graph with a call this.m from a method of a class that
\* defines m, stored unresolved
C28_Witness ==
    /\ pc = "done"
    /\ \E r \in member_calls({"this"}) :
           unrivalled(r) /\ r.resolved = 0 /\ r.dst_entity_id = NULL /\ r.confidence = 0

\* what holds: the receivers self and cls resolve to the member with
\* confidence 0.98 when no other entity scores within 0.15 of it
SelfAndClsResolve ==
    \A r \in member_calls({"self", "cls"}) : unrivalled(r) => resolved_to_member(r)

\* a committed graph with the calls self.m and cls.m resolved to the member
C28_Resolved ==
    /\ pc = "done"
    /\ \E r \in member_calls({"self"}) : resolved_to_member(r)
    /\ \E r \in member_calls({"cls"}) : resolved_to_member(r)

(***************************************************************************)
(* The index state and the entity graph.                                   *)
(***************************************************************************)
\* the store holds the graph of a tree, up to the renaming of row ids
reflects(store, tree) ==
    \E fl \in RebuildLists(world) :
        graph_rows(store) = graph_rows(rebuild_entity_graph(EmptyStore, fl, tree))

\* no cmd_index is running, and one has recorded a commit
Recorded == pc = "idle" /\ index_state.last_commit # NULL

\* C29: whenever cmd_index, with entity extraction enabled, has recorded
\* commit C as last_commit in the index state, the entity graph reflects
\* every file added, changed or deleted up to C; a rebuild or update that
\* fails does not leave last_commit = C recorded beside the older graph.
C29_IndexStateNotAhead ==
    Recorded => reflects(db, commits[index_state.last_commit])

\* HEAD is recorded as last_commit, the warning was printed, the graph is
\* the one of an earlier tree, and the run after it found the index up to
\* date
C29_Witness ==
    /\ Recorded
    /\ index_state.last_commit = Len(commits)
    /\ seen.skipped
    /\ seen.said = "Index is up to date"
    /\ ~reflects(db, commits[index_state.last_commit])
    /\ \E n \in 1..(Len(commits) - 1) : reflects(db, commits[n])

\* what holds: as long as no run has printed "Entity extraction skipped", the
\* graph is the one of the recorded commit
CurrentUnlessSkipped ==
    (Recorded /\ ~seen.skipped) => reflects(db, commits[index_state.last_commit])

\* a second commit was indexed incrementally and the graph is the one of
\* that commit
C29_Current ==
    /\ Recorded
    /\ ~seen.skipped
    /\ index_state.last_commit > 1
    /\ commits[index_state.last_commit] # commits[1]
    /\ reflects(db, commits[index_state.last_commit])

(***************************************************************************)
(* String literals and comments of a text, by their definition.            *)
(***************************************************************************)
\* the number of backslashes that stand in a row right before position j,
\* after position p
RECURSIVE backslashes_before(_, _, _)
backslashes_before(s, p, j) ==
    IF j - 1 > p /\ s[j - 1] = "\\" THEN 1 + backslashes_before(s, p, j - 1) ELSE 0

\* the last position of the string literal or comment that opens at p, the
\* end of the text if it is not closed
closes_at(s, p) ==
    LET n == Len(s)
        ends == IF s[p] \in Quotes
                THEN {j \in (p + 1)..n :
                         s[j] = s[p] /\ backslashes_before(s, p, j) % 2 = 0}
                ELSE IF s[p + 1] = "/"
                THEN {j \in (p + 1)..(n - 1) : s[j + 1] = "\n"}
                ELSE {j \in (p + 3)..n : s[j - 1] = "*" /\ s[j] = "/"}
    IN  IF ends = {} THEN n ELSE Min(ends)

\* a string literal or a comment opens at p
opens_at(s, p) ==
    \/ s[p] \in Quotes
    \/ s[p] = "/" /\ p < Len(s) /\ s[p + 1] \in {"/", "*"}

\* the positions inside string literals and comments, delimiters included,
\* from position p on, p being outside of them
RECURSIVE inside_from(_, _)
inside_from(s, p) ==
    LET opens == {j \in p..Len(s) : opens_at(s, j)}
    IN  IF opens = {} THEN {}
        ELSE (Min(opens)..closes_at(s, Min(opens)))
                 \cup inside_from(s, closes_at(s, Min(opens)) + 1)

Neutralized == seen.fn = "_neutralize_js_content"

\* C30: for every input string s, the neutralized copy has the same length
\* as s, has a newline at exactly the positions where s has one, equals s at
\* every position outside string literals and comments, and has a space at
\* every non-newline position inside a string literal (single-quoted,
\* double-quoted or backtick, with backslash escapes) or a comment (// to
\* end of line, /* to */), delimiters included.
C30_NeutralizedCopy ==
    Neutralized =>
        \E inside \in {inside_from(seen.content, 1)} :
            /\ Len(seen.out) = Len(seen.content)
            /\ \A p \in 1..Len(seen.content) :
                  /\ seen.out[p] = "\n" <=> seen.content[p] = "\n"
                  /\ p \notin inside => seen.out[p] = seen.content[p]
                  /\ (p \in inside /\ seen.content[p] # "\n") => seen.out[p] = " "

\* a string with an escaped quote in it, closed, and code after it
C30_Witness ==
    /\ Neutralized
    /\ seen.content = <<"'", "\\", "'", "'", "a">>
    /\ seen.out = <<" ", " ", " ", " ", "a">>

====
